---- MODULE Spec2Model ----
(***************************************************************************)
(* A model of quick-e2b-sandbox: the sandbox runner (CodeExecutor), the    *)
(* code synthesizer (CodeGenerator) and their helpers.                     *)
(*                                                                         *)
(* Text is a sequence of tokens; a token stands for a run of characters    *)
(* that the code only ever tests as a whole (a keyword, a blank, a word).  *)
(* An optional value is a sequence of length at most one: None is <<>>,    *)
(* Some(x) is <<x>>.                                                       *)
(***************************************************************************)
EXTENDS Integers, Sequences, FiniteSets, TLC

VARIABLES
    config,       \* the plugin configuration read by CodeExecutor.execute
    pc,           \* pc[t]: where turn t's call of CodeExecutor.execute is suspended
    code,         \* code[t]: the argument of execute
    attempt,      \* attempt[t]: the loop variable of the provisioning loop
    last_error,   \* last_error[t]: the local last_error
    sandbox,      \* sandbox[x]: self.sandbox of CodeExecutor instance x
    pending,      \* pending[t]: what the try block decided, carried through finally
    killWait,     \* killWait[t]: the environment whose kill turn t awaits, or 0
    outcome,      \* outcome[t]: how execute ended
    provisions,   \* provisions[t]: the AsyncSandbox.create calls turn t made
    failures,     \* failures[t]: those that ended in a timeout or connectivity error
    slept,        \* slept[t]: the seconds of back-off turn t waited
    lastCreate,   \* lastCreate[t]: how turn t's latest create call ended
    ran,          \* ran[t]: how turn t's awaited run_code ended
    envs,         \* envs: the environments the execution service provisioned
    cancelled,    \* cancelled[t]: turn t's task was cancelled
    loopClosed    \* the event loop was closed with tasks still suspended

runnerVars == <<config, pc, code, attempt, last_error, sandbox, pending, killWait,
                outcome, provisions, failures, slept, lastCreate, ran, envs,
                cancelled, loopClosed>>

----------------------------------------------------------------------------
(* Bounds of the model *)

\* the largest max_retries setting explored (the schema allows 0..5)
MaxRetriesSetting == 2

\* the turns (asyncio tasks) running E2BSandboxTool.execute concurrently
Turns == {"t1", "t2"}

----------------------------------------------------------------------------
(* Optional values and text *)

None == <<>>
Some(x) == <<x>>

IsSpace(tok) == tok \in {" ", "\n"}

RECURSIVE LStrip(_)
LStrip(s) == IF s # <<>> /\ IsSpace(Head(s)) THEN LStrip(Tail(s)) ELSE s

RECURSIVE RStrip(_)
RStrip(s) ==
    IF s # <<>> /\ IsSpace(s[Len(s)]) THEN RStrip(SubSeq(s, 1, Len(s) - 1)) ELSE s

\* str.strip()
Strip(s) == RStrip(LStrip(s))

\* `kw in text` for a keyword that is one token
Contains(text, kw) == \E i \in 1..Len(text) : text[i] = kw

\* str.lower(), token by token
LowerTok(tok) ==
    CASE tok = "Connection" -> "connection"
      [] tok = "ConnectError" -> "connecterror"
      [] tok = "SINE" -> "sine"
      [] tok = "Screenshot" -> "screenshot"
      [] tok = "Title" -> "title"
      [] OTHER -> tok

Lower(text) == [i \in 1..Len(text) |-> LowerTok(text[i])]


----------------------------------------------------------------------------
(* Exceptions and results *)

Exc(type, msg) == [type |-> type, msg |-> msg]

NoExc == Exc("none", <<>>)

\* models.ExecutionResult
ExecutionResult(success, output, error, images) ==
    [success |-> success, output |-> output, error |-> error, images |-> images]

NoResult == ExecutionResult(FALSE, <<>>, None, <<>>)

----------------------------------------------------------------------------
(* CodeExecutor._process_execution_result: normalization of the raw trace *)

\* A raw trace: hasLogs tells whether it has a logs object; error is None or Some([hasName, name, value, traceback]);
\* results is a sequence of payload kinds; stdout and stderr are
\* [kind |-> "list", data |-> <<text, ...>>], [kind |-> "str", data |-> <<text>>]
\* or [kind |-> "other", data |-> <<>>].

RECURSIVE JoinEmpty(_)
\* ''.join(parts)
JoinEmpty(parts) ==
    IF parts = <<>> THEN <<>> ELSE Head(parts) \o JoinEmpty(Tail(parts))

RECURSIVE JoinLines(_)
\* "\n".join(parts)
JoinLines(parts) ==
    IF parts = <<>> THEN <<>>
    ELSE IF Len(parts) = 1 THEN Head(parts)
    ELSE Head(parts) \o <<"\n">> \o JoinLines(Tail(parts))

\* the stream text, or None when the stream is neither a list nor a string
StreamText(stream) ==
    CASE stream.kind = "list" -> Some(Strip(JoinEmpty(stream.data)))
      [] stream.kind = "str" -> Some(Strip(stream.data[1]))
      [] OTHER -> None

\* lines 273-280: the streams are read only when the trace has a logs object
LogText(execution, stream) ==
    IF execution.hasLogs THEN StreamText(stream) ELSE None

\* a check that takes no stderr text for download progress
_is_curl_progress_never(stderr_text) == FALSE

curl_keywords == {"% Total", "% Received", "Dload", "Upload", "Speed", "Xferd"}

_is_curl_progress(stderr_text) == \E kw \in curl_keywords : Contains(stderr_text, kw)

ipython_keywords == {"IPython", "ipykernel", "jupyter", "DeprecationWarning", "FutureWarning"}

_is_ipython_warning(stderr_text) == \E kw \in ipython_keywords : Contains(stderr_text, kw)

\* _convert_image_to_bytes: bytes pass, base64 text is decoded, anything else is skipped
_convert_image_to_bytes(img_data) ==
    CASE img_data = "png_bytes" -> Some("bytes")
      [] img_data = "b64_text" -> Some("bytes")
      [] OTHER -> None

RECURSIVE ExtractImages(_)
ExtractImages(results) ==
    IF results = <<>> THEN <<>>
    ELSE _convert_image_to_bytes(Head(results)) \o ExtractImages(Tail(results))

TruncationMarker == <<"\n...(truncated)">>

\* a slice that starts at the second element
SliceFromSecond(text, n) == SubSeq(text, 2, n + 1)

\* text[:n]
Slice(text, n) == SubSeq(text, 1, n)

\* lines 296-301: the stdout text, cut to max_stdout_length
CapStdout(stdout_text, max_stdout_len) ==
    IF Len(stdout_text) > max_stdout_len
    THEN Slice(stdout_text, max_stdout_len) \o TruncationMarker
    ELSE stdout_text

\* lines 242-249: the error object's text
ErrorObjectText(error_obj) ==
    <<error_obj.name, ": ", error_obj.value>>
    \o (IF error_obj.traceback # <<>> THEN <<"\n">> \o error_obj.traceback ELSE <<>>)

\* reading error_obj.name of an object without that attribute raises
ProcessRaises(execution) ==
    execution.error # None /\ ~execution.error[1].hasName

ErrorParts(execution) ==
    LET fromObj == IF execution.error # None
                   THEN <<ErrorObjectText(execution.error[1])>> ELSE <<>>
        stderr_text == LogText(execution, execution.stderr)
        fromStderr ==
            IF stderr_text # None /\ stderr_text[1] # <<>>
               /\ ~_is_curl_progress(stderr_text[1])
               /\ ~_is_ipython_warning(stderr_text[1])
            THEN <<stderr_text[1]>> ELSE <<>>
    IN  fromObj \o fromStderr

OutputParts(execution, max_stdout_len) ==
    LET stdout_text == LogText(execution, execution.stdout)
    IN  IF stdout_text # None /\ stdout_text[1] # <<>>
        THEN <<CapStdout(stdout_text[1], max_stdout_len)>> ELSE <<>>

\* success taken from the presence of output instead of the absence of errors
BuildResultSuccessFromOutput(output_parts, error_parts, images) ==
    LET output == IF output_parts # <<>> THEN JoinLines(output_parts) ELSE <<>>
        error == IF error_parts # <<>> THEN Some(JoinLines(error_parts)) ELSE None
    IN  ExecutionResult(output # <<>>, output, error, images)

\* lines 336-346
BuildResult(output_parts, error_parts, images) ==
    LET output == IF output_parts # <<>> THEN JoinLines(output_parts) ELSE <<>>
        error == IF error_parts # <<>> THEN Some(JoinLines(error_parts)) ELSE None
        success == (error = None)
    IN  ExecutionResult(success, output, error, images)

_process_execution_result(execution, max_stdout_len) ==
    BuildResult(OutputParts(execution, max_stdout_len), ErrorParts(execution),
                ExtractImages(execution.results))


----------------------------------------------------------------------------
(* CodeExecutor.execute, one call per turn *)

\* one CodeExecutor shared by all turns
HolderShared(t) == "t1"

\* plugin.py line 205: every call of E2BSandboxTool.execute builds its own
\* CodeExecutor; the instance is named after the turn that built it
Holder(t) == t

\* the default of config["e2b"]["timeout"]
DefaultTimeout == 60

\* the cap on the stdout text, in tokens
MaxStdoutLength == 2

Configs ==
    [api_key : {"", "key"}, max_retries : 0..MaxRetriesSetting,
     timeout : {DefaultTimeout}, max_stdout_length : {MaxStdoutLength}]

\* the code strings handed to execute
Codes == {<<>>, <<" ", "\n">>, <<"print(1)">>}

\* the check without the strip
CodeIsEmptyNoStrip(c) == c = <<>>

\* lines 69-70: `not code or not code.strip()`
CodeIsEmpty(c) == c = <<>> \/ Strip(c) = <<>>

\* what an awaited AsyncSandbox.create can raise, by the exception's text
CreateErrors ==
    {<<"ConnectError", ": ", "all attempts failed">>,
     <<"Connection", " ", "refused">>,
     <<"401", " ", "Unauthorized">>}

CreateOutcomes == {<<"ok">>, <<"TimeoutError">>} \cup CreateErrors

\* every exception of create taken for a connectivity error
IsConnectivityAlways(error_msg) == TRUE

\* line 120
IsConnectivity(error_msg) ==
    Contains(error_msg, "ConnectError") \/ Contains(Lower(error_msg), "connection")

\* line 109
CreateTimeoutText(n) == <<"create sandbox timed out, attempt ", ToString(n)>>

\* the connectivity failure reported without its list of causes
NetworkErrorNoCauses(error_msg) ==
    Exc("RuntimeError",
        <<"network error: cannot connect to the E2B server", "\n", "details: ">>
        \o error_msg)

\* lines 130-137
NetworkError(error_msg) ==
    Exc("RuntimeError",
        <<"network error: cannot connect to the E2B server", "\n",
          "possible causes:", "\n",
          "1. proxy server unavailable", "\n",
          "2. network connection problem", "\n",
          "3. invalid API key", "\n", "\n",
          "details: ">> \o error_msg)

\* the give-up after the loop raised as a ValueError
CreateFailedAsValueError(max_retries, le) ==
    Exc("ValueError", <<"create sandbox failed">>)

\* lines 144-147
CreateFailed(max_retries, le) ==
    Exc("RuntimeError",
        <<"create sandbox failed: retried ", ToString(max_retries), " times", "\n",
          "last error: ">> \o (IF le = None THEN <<"None">> ELSE le[1]))

\* the timeout reported as a success
TimeoutResultAsSuccess(timeout) == ExecutionResult(TRUE, <<>>, None, <<>>)

\* lines 165-170
TimeoutResult(timeout) ==
    ExecutionResult(FALSE, <<>>,
                    Some(<<"code execution timed out, limit ", ToString(timeout), " s">>),
                    <<>>)

\* lines 174-179
RuntimeErrorResult(msg) ==
    ExecutionResult(FALSE, <<>>, Some(<<"runtime error: ">> \o msg), <<>>)

\* how execute ends: it returns result, or raises exc
Returned(result) == [kind |-> "return", result |-> result, exc |-> NoExc]
Raised(exc) == [kind |-> "raise", result |-> NoResult, exc |-> exc]
NotEnded == [kind |-> "none", result |-> NoResult, exc |-> NoExc]

CancelledError == Exc("CancelledError", <<>>)
GeneratorExit == Exc("GeneratorExit", <<>>)

Suspended == {"creating", "sleeping", "running", "cleaning"}

\* the environment handle held in self.sandbox
Handle(sb, t) == sb[Holder(t)][1]

Finish(t, how) ==
    /\ pc' = [pc EXCEPT ![t] = "done"]
    /\ outcome' = [outcome EXCEPT ![t] = how]

\* lines 88-102: an iteration of the loop starts and awaits AsyncSandbox.create
StartAttempt(t, n) ==
    /\ pc' = [pc EXCEPT ![t] = "creating"]
    /\ attempt' = [attempt EXCEPT ![t] = n]
    /\ provisions' = [provisions EXCEPT ![t] = @ + 1]

\* an environment of the execution service: the turn whose create call made
\* it, the run_code and kill calls it received, who made them, its kill task
NewEnv(t) == [owner |-> t, execs |-> 0, kills |-> 0, users |-> {}, killTask |-> "none"]

\* lines 142-156: after the loop; sb and ev are self.sandbox and the
\* environments as the loop left them, le is last_error
AfterLoop(t, sb, ev, le) ==
    /\ sandbox' = sb
    /\ last_error' = [last_error EXCEPT ![t] = le]
    /\ IF sb[Holder(t)] = None
       THEN /\ Finish(t, Raised(CreateFailed(config.max_retries, le)))
            /\ envs' = ev
       ELSE /\ pc' = [pc EXCEPT ![t] = "running"]
            /\ envs' = [ev EXCEPT ![Handle(sb, t)].execs = @ + 1,
                                  ![Handle(sb, t)].users = @ \cup {t}]
            /\ outcome' = outcome

\* lines 68-102: execute is called and runs to its first await
Call(t, c) ==
    /\ pc[t] = "idle"
    /\ ~loopClosed
    /\ code' = [code EXCEPT ![t] = c]
    /\ UNCHANGED <<config, pending, killWait, failures, slept, lastCreate, ran,
                   cancelled, loopClosed>>
    /\ IF CodeIsEmpty(c)
       THEN /\ Finish(t, Raised(Exc("ValueError", <<"code must not be empty">>)))
            /\ UNCHANGED <<attempt, last_error, sandbox, provisions, envs>>
       ELSE IF config.api_key = ""
       THEN /\ Finish(t, Raised(Exc("ValueError", <<"E2B API key not configured">>)))
            /\ UNCHANGED <<attempt, last_error, sandbox, provisions, envs>>
       ELSE IF 0 < config.max_retries
       THEN /\ StartAttempt(t, 0)
            /\ UNCHANGED <<last_error, sandbox, envs, outcome>>
       ELSE /\ AfterLoop(t, sandbox, envs, None)
            /\ UNCHANGED <<attempt, provisions>>

\* lines 95-140: the awaited create returns or raises
CreateReturns(t, res) ==
    /\ pc[t] = "creating"
    /\ ~loopClosed
    /\ lastCreate' = [lastCreate EXCEPT ![t] = res]
    /\ UNCHANGED <<config, code, pending, killWait, provisions, ran, cancelled,
                   loopClosed>>
    /\ LET last == ~(attempt[t] < config.max_retries - 1)
           backoff(secs, le) ==
               /\ pc' = [pc EXCEPT ![t] = "sleeping"]
               /\ last_error' = [last_error EXCEPT ![t] = le]
               /\ slept' = [slept EXCEPT ![t] = @ + secs]
               /\ UNCHANGED <<attempt, sandbox, envs, outcome>>
       IN  CASE res = <<"ok">> ->
                  /\ AfterLoop(t, [sandbox EXCEPT ![Holder(t)] = Some(Len(envs) + 1)],
                               Append(envs, NewEnv(t)), last_error[t])
                  /\ UNCHANGED <<attempt, failures, slept>>
             [] res = <<"TimeoutError">> ->
                  LET le == Some(CreateTimeoutText(attempt[t] + 1))
                  IN  /\ failures' = [failures EXCEPT ![t] = @ + 1]
                      /\ IF ~last THEN backoff(2, le)
                         ELSE AfterLoop(t, sandbox, envs, le) /\ UNCHANGED <<attempt, slept>>
             [] OTHER ->
                  IF IsConnectivity(res)
                  THEN /\ failures' = [failures EXCEPT ![t] = @ + 1]
                       /\ IF ~last THEN backoff(3, Some(res))
                          ELSE /\ Finish(t, Raised(NetworkError(res)))
                               /\ last_error' = [last_error EXCEPT ![t] = Some(res)]
                               /\ UNCHANGED <<attempt, sandbox, envs, slept>>
                  ELSE /\ Finish(t, Raised(Exc("Exception", res)))
                       /\ last_error' = [last_error EXCEPT ![t] = Some(res)]
                       /\ UNCHANGED <<attempt, sandbox, envs, failures, slept>>

\* lines 112-113, 126-127: the back-off sleep ends and the next iteration starts
SleepDone(t) ==
    /\ pc[t] = "sleeping"
    /\ ~loopClosed
    /\ StartAttempt(t, attempt[t] + 1)
    /\ UNCHANGED <<config, code, last_error, sandbox, pending, killWait, outcome,
                   failures, slept, lastCreate, ran, envs, cancelled, loopClosed>>

\* lines 181-183 and _cleanup_sandbox up to its await: how carries what the
\* try block returned or raised
Cleanup(t, how) ==
    IF sandbox[Holder(t)] # None
    THEN IF loopClosed
         THEN \* lines 447-450
              /\ sandbox' = [sandbox EXCEPT ![Holder(t)] = None]
              /\ Finish(t, how)
              /\ UNCHANGED <<pending, killWait, envs>>
         ELSE \* lines 453-455: the shielded kill task is created and awaited
              /\ pc' = [pc EXCEPT ![t] = "cleaning"]
              /\ pending' = [pending EXCEPT ![t] = how]
              /\ killWait' = [killWait EXCEPT ![t] = Handle(sandbox, t)]
              /\ envs' = [envs EXCEPT ![Handle(sandbox, t)].kills = @ + 1,
                                      ![Handle(sandbox, t)].users = @ \cup {t},
                                      ![Handle(sandbox, t)].killTask = "running"]
              /\ UNCHANGED <<sandbox, outcome>>
    ELSE /\ Finish(t, how)
         /\ UNCHANGED <<sandbox, pending, killWait, envs>>

Stream(kind, data) == [kind |-> kind, data |-> data]

NoStream == Stream("other", <<>>)

ErrorObject(hasName, name, value, traceback) ==
    [hasName |-> hasName, name |-> name, value |-> value, traceback |-> traceback]

RawTrace(hasLogs, error, results, stdout, stderr) ==
    [hasLogs |-> hasLogs, error |-> error, results |-> results,
     stdout |-> stdout, stderr |-> stderr]

\* the raw traces sandbox.run_code returns to the runner
RunTraces ==
    { RawTrace(TRUE, None, <<>>, Stream("list", << <<"a", "b", "c">>, <<"\n">> >>),
               Stream("list", <<>>)),
      RawTrace(TRUE, Some(ErrorObject(TRUE, "NameError", "name 'x' is not defined",
                                      <<"Traceback", "line 1">>)),
               <<>>, Stream("list", <<>>), Stream("list", <<>>)),
      RawTrace(TRUE, None, <<"png_bytes", "bad">>, Stream("str", << <<" ", "\n">> >>),
               Stream("str", << <<"% Total", " ", "Dload">> >>)),
      RawTrace(FALSE, Some(ErrorObject(FALSE, "", "", <<>>)), <<>>, NoStream, NoStream) }

NoTrace == RawTrace(FALSE, None, <<>>, NoStream, NoStream)

RunOutcome(kind, trace, msg) == [kind |-> kind, trace |-> trace, msg |-> msg]

\* how the awaited run_code ends: a trace, the wait_for timeout, another exception
RunOutcomes ==
    {RunOutcome("trace", tr, <<>>) : tr \in RunTraces}
    \cup {RunOutcome("TimeoutError", NoTrace, <<>>),
          RunOutcome("Exception", NoTrace, <<"sandbox", " ", "was not found">>)}

\* lines 149-179: what the try block returns for an outcome of run_code
ExecuteResult(res) ==
    CASE res.kind = "TimeoutError" -> TimeoutResult(config.timeout)
      [] res.kind = "Exception" -> RuntimeErrorResult(res.msg)
      [] OTHER ->
           IF ProcessRaises(res.trace)
           THEN RuntimeErrorResult(<<"AttributeError: no attribute 'name'">>)
           ELSE _process_execution_result(res.trace, config.max_stdout_length)

\* lines 153-183: the awaited run_code returns or raises, then finally runs
RunReturns(t, res) ==
    /\ pc[t] = "running"
    /\ ~loopClosed
    /\ ran' = [ran EXCEPT ![t] = res.kind]
    /\ Cleanup(t, Returned(ExecuteResult(res)))
    /\ UNCHANGED <<config, code, attempt, last_error, provisions, failures, slept,
                   lastCreate, cancelled, loopClosed>>

\* a failed or timed-out kill raised to the caller
AfterKillRaising(how, res) ==
    IF res = "ok" THEN how ELSE Raised(Exc("Exception", <<"kill ", res>>))

\* lines 456-462: how execute goes on after the awaited kill ended with res:
\* a failure or a timeout is logged, and what the try block decided stands
AfterKill(how, res) == how

\* the kill awaited without the shield: cancelling the turn cancels it
KillTaskUnshielded(state) == "cancelled"

\* line 453: asyncio.shield keeps the kill task running when the turn that
\* awaits it is cancelled
KillTaskAfterCancel(state) == state

\* lines 453-462: the kill task ends (res: ok, it raised, wait_for timed out);
\* a turn still waiting for it resumes, drops the handle and leaves finally
KillFinish(e, res) ==
    /\ ~loopClosed
    /\ envs[e].killTask = "running"
    /\ envs' = [envs EXCEPT ![e].killTask = res]
    /\ LET waits(t) == pc[t] = "cleaning" /\ killWait[t] = e
       IN  /\ pc' = [t \in Turns |-> IF waits(t) THEN "done" ELSE pc[t]]
           /\ outcome' = [t \in Turns |->
                            IF waits(t) THEN AfterKill(pending[t], res) ELSE outcome[t]]
           /\ killWait' = [t \in Turns |-> IF waits(t) THEN 0 ELSE killWait[t]]
           /\ sandbox' = [x \in Turns |->
                            IF \E t \in Turns : waits(t) /\ Holder(t) = x
                            THEN None ELSE sandbox[x]]
    /\ UNCHANGED <<config, code, attempt, last_error, pending, provisions, failures,
                   slept, lastCreate, ran, cancelled, loopClosed>>

\* the turn's task is cancelled: CancelledError is raised at the await it is
\* suspended in
Cancel(t) ==
    /\ pc[t] \in Suspended
    /\ ~loopClosed
    /\ cancelled' = [cancelled EXCEPT ![t] = TRUE]
    /\ ran' = [ran EXCEPT ![t] = IF pc[t] = "running" THEN "CancelledError" ELSE @]
    /\ UNCHANGED <<config, code, attempt, last_error, provisions, failures, slept,
                   lastCreate, loopClosed>>
    /\ CASE pc[t] \in {"creating", "sleeping"} ->
              \* neither except clause of the loop catches it
              /\ Finish(t, Raised(CancelledError))
              /\ UNCHANGED <<sandbox, pending, killWait, envs>>
         [] pc[t] = "running" ->
              \* neither except clause of the try catches it; finally runs
              Cleanup(t, Raised(CancelledError))
         [] pc[t] = "cleaning" ->
              \* lines 457-459: the shield lets the kill task run on
              /\ sandbox' = [sandbox EXCEPT ![Holder(t)] = None]
              /\ killWait' = [killWait EXCEPT ![t] = 0]
              /\ envs' = [envs EXCEPT ![killWait[t]].killTask = KillTaskAfterCancel(@)]
              /\ Finish(t, pending[t])
              /\ UNCHANGED pending

\* the event loop is closed while turns are still suspended
CloseLoop ==
    /\ ~loopClosed
    /\ \E t \in Turns : pc[t] \in Suspended
    /\ loopClosed' = TRUE
    /\ UNCHANGED <<config, pc, code, attempt, last_error, sandbox, pending, killWait,
                   outcome, provisions, failures, slept, lastCreate, ran, envs,
                   cancelled>>

\* a suspended coroutine is destroyed after the loop was closed: GeneratorExit
\* is raised at its await
Finalize(t) ==
    /\ loopClosed
    /\ pc[t] \in Suspended
    /\ UNCHANGED <<config, code, attempt, last_error, provisions, failures, slept,
                   lastCreate, ran, cancelled, loopClosed>>
    /\ IF pc[t] = "running"
       THEN Cleanup(t, Raised(GeneratorExit))
       ELSE /\ Finish(t, Raised(GeneratorExit))
            /\ UNCHANGED <<sandbox, pending, killWait, envs>>

RunnerInit ==
    /\ config \in Configs
    /\ pc = [t \in Turns |-> "idle"]
    /\ code = [t \in Turns |-> <<>>]
    /\ attempt = [t \in Turns |-> 0]
    /\ last_error = [t \in Turns |-> None]
    /\ sandbox = [x \in Turns |-> None]
    /\ pending = [t \in Turns |-> NotEnded]
    /\ killWait = [t \in Turns |-> 0]
    /\ outcome = [t \in Turns |-> NotEnded]
    /\ provisions = [t \in Turns |-> 0]
    /\ failures = [t \in Turns |-> 0]
    /\ slept = [t \in Turns |-> 0]
    /\ lastCreate = [t \in Turns |-> <<>>]
    /\ ran = [t \in Turns |-> "none"]
    /\ envs = <<>>
    /\ cancelled = [t \in Turns |-> FALSE]
    /\ loopClosed = FALSE

----------------------------------------------------------------------------
(* The code synthesizer: CodeGenerator, TemplateLibrary and the templates  *)

VARIABLES
    llm_config,   \* config["llm"]: [enable_code_generation : BOOLEAN]
    gen_pc,       \* where the call of CodeGenerator.generate is suspended
    intent,       \* the argument of generate
    template,     \* the local template of the first tier, None or Some(template)
    tiers,        \* the tiers generate entered so far, with how each ended
    generated     \* how generate ended

genVars == <<llm_config, gen_pc, intent, template, tiers, generated>>

\* A parameter value of an Intent: a str with its text, or a JSON number or null.
Str(text) == [type |-> "str", text |-> text]
Num(tok) == [type |-> "int", text |-> <<tok>>]
NullValue == [type |-> "none", text |-> <<>>]

\* bool(value)
Truthy(value) ==
    CASE value.type = "str" -> value.text # <<>>
      [] value.type = "int" -> value.text # <<"0">>
      [] OTHER -> FALSE

\* A dict is the sequence of its items in insertion order.
KV(key, value) == [key |-> key, value |-> value]

\* key in d
HasKey(d, key) == \E i \in 1..Len(d) : d[i].key = key

\* d.get(key, default)
Get(d, key, default) ==
    IF HasKey(d, key)
    THEN d[CHOOSE i \in 1..Len(d) : d[i].key = key].value
    ELSE default

\* The pairs <<token, s>> where s is a proper substring of the token that some
\* test of the code looks for.
Substrings ==
    { <<"sine", "sin">>, <<"https://a.io", "https://">>,
      <<"print(1)", "print">>, <<"import numpy", "import">>,
      <<"information = 1", "for">>, <<"def f(:", "def">>,
      <<"import requests", "import">>, <<"import sys", "import">>,
      <<"import numpy as np", "import">> }

\* s in tok
HasSubstring(tok, s) == tok = s \/ <<tok, s>> \in Substrings

\* kw in text
KeywordIn(text, kw) == \E i \in 1..Len(text) : HasSubstring(text[i], kw)

\* re.search(r'https?://', text)
HasURL(text) == KeywordIn(text, "http://") \/ KeywordIn(text, "https://")

\* models.Template; parameters is a dict of parameter definitions
Template(name, task_type, sub_type, parameters, code_template, estimated_time) ==
    [name |-> name, task_type |-> task_type, sub_type |-> sub_type,
     parameters |-> parameters, code_template |-> code_template,
     estimated_time |-> estimated_time]

\* a parameter definition: "required" and, when declared, "default"
ParamDef(required, default) == [required |-> required, default |-> default]

\* templates/web_templates.py: the placeholder {url} stands once as an
\* expression and once inside an f-string, next to the f-string field {title}
WEB_SCRAPE_TITLE ==
    Template("web_scrape_title", "web", "scrape_title",
             << KV("url", ParamDef(TRUE, None)) >>,
             << "\n", "import requests", "\n", "url = ", "{url}", "\n",
                "print(f'URL: ", "{url}", "')", "\n",
                "print(f'title: ", "{title}", "')", "\n" >>,
             3)

\* templates/screenshot_templates.py
WEB_SCREENSHOT ==
    Template("web_screenshot", "web", "screenshot",
             << KV("url", ParamDef(TRUE, None)) >>,
             << "\n", "import sys", "\n", "print(f'Python: ", "{sys.version}", "')",
                "\n", "url = ", "{url}", "\n", "print(f'URL: ", "{url}", "')", "\n" >>,
             8)

\* templates/plot_templates.py
PLOT_SINE_WAVE ==
    Template("plot_sine_wave", "plot", "sine_wave", << >>,
             << "\n", "import numpy as np", "\n",
                "print(f'saved: ", "{output_path}", "')", "\n" >>,
             2)

\* TemplateLibrary._load_templates: self.templates
Templates == {WEB_SCRAPE_TITLE, WEB_SCREENSHOT, PLOT_SINE_WAVE}

\* TemplateLibrary.get
TemplateLibrary_get(key) ==
    IF \E T \in Templates : T.name = key
    THEN Some(CHOOSE T \in Templates : T.name = key)
    ELSE None

\* The keyword lists of TemplateLibrary.match.  The Chinese keywords are
\* written in pinyin: jietu, jieping, zhuatu (screenshot), wangye (web page),
\* zhuaqu (scrape), biaoti (title), zhengxian (sine), quxian (curve).
ScreenshotKeywords == {"jietu", "screenshot", "jieping", "zhuatu"}
ScrapeKeywords == {"wangye", "zhuaqu"}
TitleKeywords == {"biaoti", "title"}
SineKeywords == {"zhengxian", "sin", "quxian", "sine"}

\* The outcome of a template lookup: it raised exc, or it returned template.
Found(T) == [exc |-> NoExc, template |-> T]
LookupRaised(exc) == [exc |-> exc, template |-> None]

AttributeError == Exc("AttributeError", <<"object has no attribute", " ", "lower">>)

\* TemplateLibrary.match
TemplateLibrary_match(user_request) ==
    IF user_request.type # "str"
    THEN LookupRaised(AttributeError)
    ELSE LET request_lower == Lower(user_request.text)
         IN  IF /\ \E kw \in ScreenshotKeywords : KeywordIn(request_lower, kw)
                /\ HasURL(request_lower)
             THEN Found(TemplateLibrary_get("web_screenshot"))
             ELSE IF \/ \E kw \in ScrapeKeywords : KeywordIn(request_lower, kw)
                     \/ /\ \E kw \in TitleKeywords : KeywordIn(request_lower, kw)
                        /\ HasURL(request_lower)
             THEN Found(TemplateLibrary_get("web_scrape_title"))
             ELSE IF \E kw \in SineKeywords : KeywordIn(request_lower, kw)
             THEN Found(TemplateLibrary_get("plot_sine_wave"))
             ELSE Found(None)

\* Template.validate_parameters: is_valid
validate_parameters(T, params) ==
    \A i \in 1..Len(T.parameters) :
        T.parameters[i].value.required => HasKey(params, T.parameters[i].key)

\* models.Intent; confidence is in hundredths
Intent(task_type, sub_type, parameters, confidence) ==
    [task_type |-> task_type, sub_type |-> sub_type,
     parameters |-> parameters, confidence |-> confidence]

\* the threshold of _should_use_template, in hundredths
TemplateConfidence == 70

\* a variant that never takes the first tier
_should_use_template_never(it) == FALSE

\* CodeGenerator._should_use_template
_should_use_template(it) ==
    it.confidence > TemplateConfidence /\ it.task_type # "other"

\* the key _match_template looks up
template_key(it) ==
    IF it.sub_type # None /\ it.sub_type[1] # ""
    THEN it.task_type \o "_" \o it.sub_type[1]
    ELSE it.task_type

\* the template the exact lookup of _match_template keeps, or None
ExactMatch(it) ==
    LET found == TemplateLibrary_get(template_key(it))
    IN  IF found # None /\ validate_parameters(found[1], it.parameters)
        THEN found
        ELSE None

\* CodeGenerator._match_template
_match_template(it) ==
    IF ExactMatch(it) # None
    THEN Found(ExactMatch(it))
    ELSE LET user_request == Get(it.parameters, "user_request", Str(<<>>))
         IN  IF Truthy(user_request)
             THEN TemplateLibrary_match(user_request)
             ELSE Found(None)

\* CodeGenerator._format_parameter_value
_format_parameter_value(value) ==
    CASE value.type = "str" -> <<"'">> \o value.text \o <<"'">>
      [] value.type = "none" -> <<"None">>
      [] OTHER -> value.text

\* the placeholder of a parameter name
Placeholder(key) == "{" \o key \o "}"

\* str.replace(old, new) where old is one token
RECURSIVE Replace(_, _, _)
Replace(text, old, new) ==
    IF text = <<>> THEN <<>>
    ELSE (IF Head(text) = old THEN new ELSE <<Head(text)>>)
         \o Replace(Tail(text), old, new)

\* the first loop of _fill_template, over the items of parameters from i on
RECURSIVE FillFromParameters(_, _, _)
FillFromParameters(text, parameters, i) ==
    IF i > Len(parameters) THEN text
    ELSE FillFromParameters(
             Replace(text, Placeholder(parameters[i].key),
                     _format_parameter_value(parameters[i].value)),
             parameters, i + 1)

\* the second loop of _fill_template, over the parameter definitions from i on
RECURSIVE FillFromDefaults(_, _, _)
FillFromDefaults(text, defs, i) ==
    IF i > Len(defs) THEN text
    ELSE FillFromDefaults(
             IF defs[i].value.default # None
             THEN Replace(text, Placeholder(defs[i].key),
                          _format_parameter_value(defs[i].value.default[1]))
             ELSE text,
             defs, i + 1)

\* CodeGenerator._fill_template
_fill_template(T, parameters) ==
    FillFromDefaults(FillFromParameters(T.code_template, parameters, 1),
                     T.parameters, 1)

\* The marker that opens or closes a code block.  "<fence>" stands for three
\* backquotes, which are a substring of the opening marker too.
IsFence(tok) == tok \in {"<fence>", "<fence>python"}

\* the least index after from whose token satisfies the test, or 0
FirstPython(text) ==
    IF \E i \in 1..Len(text) : text[i] = "<fence>python"
    THEN CHOOSE i \in 1..Len(text) :
             /\ text[i] = "<fence>python"
             /\ \A j \in 1..(i - 1) : text[j] # "<fence>python"
    ELSE 0

\* response.find(fence, start) for a start just after token number from
NextFence(text, from) ==
    IF \E i \in (from + 1)..Len(text) : IsFence(text[i])
    THEN CHOOSE i \in (from + 1)..Len(text) :
             /\ IsFence(text[i])
             /\ \A j \in (from + 1)..(i - 1) : ~IsFence(text[j])
    ELSE 0

\* CodeGenerator._extract_code_from_response
_extract_code_from_response(response) ==
    LET py == FirstPython(response)
        first == NextFence(response, 0)
    IN  IF py # 0 /\ NextFence(response, py) # 0
        THEN Strip(SubSeq(response, py + 1, NextFence(response, py) - 1))
        ELSE IF first # 0 /\ response[first] = "<fence>" /\ NextFence(response, first) # 0
        THEN Strip(SubSeq(response, first + 1, NextFence(response, first) - 1))
        ELSE Strip(response)

\* the least length _validate_code accepts
MinCodeLength == 10

\* len(tok); a token not listed has at least MinCodeLength characters
TokLen(tok) ==
    CASE tok \in {" ", "\n", "'"} -> 1
      [] tok = "<fence>" -> 3
      [] tok = "print(1)" -> 8
      [] tok = "<fence>python" -> 9
      [] tok = "def f(:" -> 7
      [] OTHER -> MinCodeLength

\* len(text)
RECURSIVE Length(_)
Length(text) == IF text = <<>> THEN 0 ELSE TokLen(Head(text)) + Length(Tail(text))

python_keywords == {"import", "def", "class", "if", "for", "while", "try", "print"}

\* the tokens that are not Python source
NotPython == {"def f(:", "<fence>", "<fence>python", "hello world!", "rate limited"}

\* compile(code, "<string>", "exec", ...) raises no SyntaxError
Compiles(text) == \A i \in 1..Len(text) : text[i] \notin NotPython

\* a validation that accepts every text
_validate_code_accepts_all(text) == TRUE

\* CodeGenerator._validate_code
_validate_code(text) ==
    /\ text # <<>>
    /\ Length(text) >= MinCodeLength
    /\ \E keyword \in python_keywords : KeywordIn(text, keyword)
    /\ Compiles(text)

\* What llm_api answers to one call: no model is configured, the call raises,
\* or it returns (success, content)
LLMReply(kind, success, content) ==
    [kind |-> kind, success |-> success, content |-> content]

LLMContents ==
    { << >>,
      << "<fence>python", "\n", "import numpy", "\n", "print(1)", "\n", "<fence>" >>,
      << "<fence>", "\n", "print(1)", "\n", "<fence>" >>,
      << "information = 1" >>,
      << "hello world!" >>,
      << "import numpy", "\n", "def f(:" >>,
      << "<fence>python", "\n", "import numpy", "\n", "print(1)" >> }

LLMReplies ==
    { LLMReply("no_models", FALSE, <<>>), LLMReply("raise", FALSE, <<>>),
      LLMReply("reply", FALSE, <<"rate limited">>) }
    \cup { LLMReply("reply", TRUE, c) : c \in LLMContents }

\* The outcome of an LLM tier: it raised exc, or it returned code.
Code(text) == [exc |-> NoExc, code |-> text]
TierRaised(exc) == [exc |-> exc, code |-> <<>>]

\* CodeGenerator._call_llm
_call_llm(reply) ==
    CASE reply.kind = "no_models" ->
             TierRaised(Exc("ValueError", <<"no LLM model configured">>))
      [] reply.kind = "raise" ->
             TierRaised(Exc("ConnectionError", <<"llm api">>))
      [] reply.kind = "reply" /\ ~reply.success ->
             TierRaised(Exc("ValueError", <<"LLM call failed", ": ">> \o reply.content))
      [] OTHER -> Code(Strip(reply.content))

InvalidCode == Exc("ValueError", <<"generated code is invalid">>)

\* the steps both LLM tiers take once the prompt is built: call, extract, validate
CodeFromReply(reply) ==
    LET response == _call_llm(reply)
    IN  IF response.exc # NoExc THEN response
        ELSE IF ~_validate_code(_extract_code_from_response(response.code))
        THEN TierRaised(InvalidCode)
        ELSE Code(_extract_code_from_response(response.code))

\* CodeGenerator._generate_from_template_with_llm
_generate_from_template_with_llm(reply) == CodeFromReply(reply)

\* CodeGenerator._generate_by_llm
_generate_by_llm(reply) == CodeFromReply(reply)

\* models.GeneratedCode; confidence in hundredths, estimated_time in seconds
GeneratedCode(text, source, template_name, confidence, estimated_time) ==
    [code |-> text, source |-> source, template_name |-> template_name,
     confidence |-> confidence, estimated_time |-> estimated_time]

NoCode == GeneratedCode(<<>>, "", None, 0, 0)

GenReturned(g) == [kind |-> "return", result |-> g, exc |-> NoExc]
GenRaised(exc) == [kind |-> "raise", result |-> NoCode, exc |-> exc]
GenNotEnded == [kind |-> "none", result |-> NoCode, exc |-> NoExc]

\* the ValueError of the fourth tier
GenerationExhausted ==
    Exc("ValueError",
        << "cannot generate code", "\n", "- no matching template", "\n",
           "- LLM generation failed or disabled" >>)

\* one entry of tiers
Tier(n, ended) == [tier |-> n, ended |-> ended]

\* generate, third and fourth tier
FillTier(it, log, tpl) ==
    LET m == _match_template(it)
    IN  /\ gen_pc' = "done"
        /\ IF m.exc # NoExc
           THEN /\ template' = tpl
                /\ tiers' = Append(log, Tier(3, "lookup_raised"))
                /\ generated' = GenRaised(m.exc)
           ELSE IF m.template # None
           THEN /\ template' = m.template
                /\ tiers' = Append(log, Tier(3, "returned"))
                /\ generated' =
                       GenReturned(GeneratedCode(
                           _fill_template(m.template[1], it.parameters), "template",
                           Some(m.template[1].name), 90, m.template[1].estimated_time))
           ELSE /\ template' = None
                /\ tiers' = Append(log, Tier(3, "no_template"))
                /\ generated' = GenRaised(GenerationExhausted)

\* generate, from the test of the second tier on
FreeTier(it, llm_enabled, log, tpl) ==
    IF llm_enabled
    THEN /\ gen_pc' = "free_llm"
         /\ template' = tpl
         /\ tiers' = log
         /\ generated' = GenNotEnded
    ELSE FillTier(it, log, tpl)

\* CodeGenerator.generate is called: it runs to its first await or to its end
Generate(it, llm_enabled) ==
    /\ gen_pc = "idle"
    /\ intent' = it
    /\ llm_config' = [enable_code_generation |-> llm_enabled]
    /\ IF llm_enabled /\ _should_use_template(it)
       THEN LET m == _match_template(it)
            IN  IF m.exc # NoExc
                THEN /\ gen_pc' = "done"
                     /\ template' = None
                     /\ tiers' = <<Tier(1, "lookup_raised")>>
                     /\ generated' = GenRaised(m.exc)
                ELSE IF m.template # None
                THEN /\ gen_pc' = "template_llm"
                     /\ template' = m.template
                     /\ tiers' = <<>>
                     /\ generated' = GenNotEnded
                ELSE FreeTier(it, llm_enabled, <<Tier(1, "no_template")>>, None)
       ELSE FreeTier(it, llm_enabled, <<>>, None)

\* the LLM call of the first tier ends
TemplateLLMReturns(reply) ==
    /\ gen_pc = "template_llm"
    /\ LET r == _generate_from_template_with_llm(reply)
       IN  IF r.exc = NoExc
           THEN /\ gen_pc' = "done"
                /\ tiers' = Append(tiers, Tier(1, "returned"))
                /\ generated' =
                       GenReturned(GeneratedCode(
                           r.code, "llm_template", Some(template[1].name), 95,
                           template[1].estimated_time))
                /\ UNCHANGED template
           ELSE FreeTier(intent, llm_config.enable_code_generation,
                         Append(tiers, Tier(1, "failed")), template)
    /\ UNCHANGED <<intent, llm_config>>

\* the LLM call of the second tier ends
FreeLLMReturns(reply) ==
    /\ gen_pc = "free_llm"
    /\ LET r == _generate_by_llm(reply)
       IN  IF r.exc = NoExc
           THEN /\ gen_pc' = "done"
                /\ tiers' = Append(tiers, Tier(2, "returned"))
                /\ generated' = GenReturned(GeneratedCode(r.code, "llm", None, 75, 5))
                /\ UNCHANGED template
           ELSE FillTier(intent, Append(tiers, Tier(2, "failed")), template)
    /\ UNCHANGED <<intent, llm_config>>

\* The user requests explored.  "zhuaqu" (scrape) needs no URL to match.
Requests ==
    { Str(<<"draw", " ", "SINE">>),
      Str(<<"Screenshot", " ", "https://a.io">>),
      Str(<<"Title", " ", "https://a.io">>),
      Str(<<"zhuaqu", " ", "page">>),
      Str(<<"hello">>),
      Str(<<>>),
      Num("5"),
      NullValue }

ParameterSets ==
    { <<KV("user_request", r)>> : r \in Requests }
    \cup { <<KV("url", Str(<<"https://a.io">>)), KV("user_request", r)>> : r \in Requests }
    \cup { <<KV("url", Str(<<"{user_request}">>)), KV("user_request", Str(<<"hello">>))>>,
           <<KV("user_request", Str(<<"hello">>)), KV("url", Str(<<"{user_request}">>))>>,
           <<KV("url", Str(<<"https://a.io/", "{url}">>)), KV("user_request", Str(<<"hello">>))>> }

Intents ==
    { Intent(task_type, sub_type, parameters, confidence) :
        task_type \in {"plot", "web", "other"},
        sub_type \in {None, Some("sine_wave"), Some("screenshot")},
        parameters \in ParameterSets,
        confidence \in {30, TemplateConfidence, 90} }

NoIntent == Intent("other", None, <<>>, 0)

GenInit ==
    /\ llm_config = [enable_code_generation |-> TRUE]
    /\ gen_pc = "idle"
    /\ intent = NoIntent
    /\ template = None
    /\ tiers = <<>>
    /\ generated = GenNotEnded

----------------------------------------------------------------------------
(* The intent recognizer: IntentRecognizer.recognize and _parse_response *)

VARIABLES
    rec_pc,       \* where the call of IntentRecognizer.recognize is suspended
    raw_request,  \* the argument user_request of recognize
    rec_reply,    \* what the LLM answered to recognize, None while it has not
    recognized    \* how recognize ended

recVars == <<rec_pc, raw_request, rec_reply, recognized>>

\* A JSON value: type is "str", "num", "none", "list" or "dict"; a str has text,
\* a num has its value in hundredths, a list or dict has items.
JValue(type, text, num, items) ==
    [type |-> type, text |-> text, num |-> num, items |-> items]

JStr(text) == JValue("str", text, 0, <<>>)
JNum(hundredths) == JValue("num", <<>>, hundredths, <<>>)
JNull == JValue("none", <<>>, 0, <<>>)
JList(items) == JValue("list", <<>>, 0, items)
JDict(items) == JValue("dict", <<>>, 0, items)

\* d[key] = value on a dict
RECURSIVE DictSet(_, _, _)
DictSet(d, key, value) ==
    IF d = <<>> THEN <<KV(key, value)>>
    ELSE IF Head(d).key = key THEN <<KV(key, value)>> \o Tail(d)
    ELSE <<Head(d)>> \o DictSet(Tail(d), key, value)

\* d.update(other)
RECURSIVE DictUpdate(_, _)
DictUpdate(d, other) ==
    IF other = <<>> THEN d
    ELSE DictUpdate(DictSet(d, Head(other).key, Head(other).value), Tail(other))

\* The members a reply can hold, one token each, and the pair each stands for
Members ==
    [ task_plot |-> KV("task_type", JStr(<<"plot">>)),
      task_web |-> KV("task_type", JStr(<<"web">>)),
      sub_sine_wave |-> KV("sub_type", JStr(<<"sine_wave">>)),
      confidence_90 |-> KV("confidence", JNum(90)),
      confidence_high |-> KV("confidence", JStr(<<"high">>)),
      confidence_null |-> KV("confidence", JNull),
      parameters_empty |-> KV("parameters", JDict(<<>>)),
      parameters_url |->
          KV("parameters", JDict(<<KV("url", Str(<<"https://a.io">>))>>)),
      parameters_request |->
          KV("parameters", JDict(<<KV("user_request", Str(<<"draw", " ", "SINE">>))>>)),
      parameters_request_5 |->
          KV("parameters", JDict(<<KV("user_request", Num("5"))>>)),
      parameters_null |-> KV("parameters", JNull),
      parameters_list |-> KV("parameters", JList(<<Num("1")>>)),
      parameters_list_key |-> KV("parameters", JList(<<Str(<<"user_request">>)>>)),
      parameters_text |-> KV("parameters", JStr(<<"none">>)),
      parameters_text_key |-> KV("parameters", JStr(<<"the", " ", "user_request">>)) ]

IsMember(tok) == tok \in DOMAIN Members

\* the text without its white space
RECURSIVE NoSpace(_)
NoSpace(text) ==
    IF text = <<>> THEN <<>>
    ELSE (IF IsSpace(Head(text)) THEN <<>> ELSE <<Head(text)>>) \o NoSpace(Tail(text))

\* The outcome of parsing: it raised exc, or it returned the dict data.
Parsed(data) == [exc |-> NoExc, data |-> data]
ParseRaised(exc) == [exc |-> exc, data |-> <<>>]

JSONDecodeError == Exc("JSONDecodeError", <<>>)

\* the members of an object, after the opening brace and before the closing one
RECURSIVE LoadMembers(_, _)
LoadMembers(text, data) ==
    IF text = <<>> \/ ~IsMember(Head(text)) THEN ParseRaised(JSONDecodeError)
    ELSE LET d == DictSet(data, Members[Head(text)].key, Members[Head(text)].value)
         IN  IF Tail(text) = <<>> THEN Parsed(d)
             ELSE IF Head(Tail(text)) # "," THEN ParseRaised(JSONDecodeError)
             ELSE LoadMembers(Tail(Tail(text)), d)

\* json.loads of a text that starts with "{" and ends with "}"
json_loads(text) ==
    LET inner == NoSpace(SubSeq(text, 2, Len(text) - 1))
    IN  IF inner = <<>> THEN Parsed(<<>>) ELSE LoadMembers(inner, <<>>)

\* re.search(r'\{.*\}', response, re.DOTALL): from the first "{" to the last
\* "}" after it, or None
json_match(response) ==
    LET opens == {i \in 1..Len(response) : response[i] = "{"}
        first == CHOOSE i \in opens : \A j \in opens : i <= j
        closes == {i \in 1..Len(response) : response[i] = "}" /\ i > first}
        last == CHOOSE i \in closes : \A j \in closes : j <= i
    IN  IF opens = {} \/ closes = {} THEN None
        ELSE Some(SubSeq(response, first, last))

\* _parse_response: default_intent
default_intent ==
    << KV("task_type", JStr(<<"other">>)), KV("sub_type", JNull),
       KV("parameters", JDict(<<>>)), KV("confidence", JNum(30)),
       KV("needs_context", JStr(<<"False">>)), KV("context_refs", JList(<<>>)) >>

\* IntentRecognizer._parse_response
_parse_response(response) ==
    IF json_match(response) = None THEN default_intent
    ELSE LET intent_data == json_loads(json_match(response)[1])
         IN  IF intent_data.exc # NoExc THEN default_intent
             ELSE DictUpdate(default_intent, intent_data.data)

\* The intent recognize builds; every field is a JSON value
RecIntent(task_type, sub_type, parameters, confidence) ==
    [task_type |-> task_type, sub_type |-> sub_type,
     parameters |-> parameters, confidence |-> confidence]

\* the Intent of the except block of recognize
FallbackIntent(raw) ==
    RecIntent(JStr(<<"other">>), JNull,
              JDict(<<KV("user_request", Str(raw))>>), JNum(30))

\* The outcome of the try block of recognize: it raised exc, or it built intent.
Built(it) == [exc |-> NoExc, intent |-> it]
BuildRaised(exc) == [exc |-> exc, intent |-> FallbackIntent(<<>>)]

TypeError == Exc("TypeError", <<>>)

\* "user_request" in parameters raises
KeyTestRaises(parameters) == parameters.type \in {"none", "num"}

\* "user_request" in parameters
KeyPresent(parameters) ==
    CASE parameters.type = "dict" -> HasKey(parameters.items, "user_request")
      [] parameters.type = "list" ->
             \E i \in 1..Len(parameters.items) :
                 parameters.items[i] = Str(<<"user_request">>)
      [] OTHER -> Contains(parameters.text, "user_request")

\* f"{confidence:.2f}" raises
FormatRaises(confidence) == confidence.type # "num"

\* IntentRecognizer._call_llm
IntentRecognizer_call_llm(reply) ==
    CASE reply.kind = "no_models" ->
             TierRaised(Exc("ValueError", <<"no LLM model configured">>))
      [] reply.kind = "raise" ->
             TierRaised(Exc("ConnectionError", <<"llm api">>))
      [] reply.kind = "reply" /\ ~reply.success ->
             TierRaised(Exc("ValueError", <<"LLM call failed", ": ">> \o reply.content))
      [] OTHER -> Code(Strip(reply.content))

\* intent.parameters["user_request"] = user_request, when the key is absent
EnsureUserRequest(parameters, raw) ==
    IF KeyPresent(parameters) THEN parameters
    ELSE JDict(DictSet(parameters.items, "user_request", Str(raw)))

\* the try block of recognize, from the reply of the LLM on
TryRecognize(raw, reply) ==
    LET response == IntentRecognizer_call_llm(reply)
        intent_data == _parse_response(response.code)
        parameters == Get(intent_data, "parameters", JDict(<<>>))
    IN  IF response.exc # NoExc THEN BuildRaised(response.exc)
        ELSE IF KeyTestRaises(parameters) THEN BuildRaised(TypeError)
        ELSE IF ~KeyPresent(parameters) /\ parameters.type # "dict"
        THEN BuildRaised(TypeError)
        ELSE IF FormatRaises(Get(intent_data, "confidence", JNum(50)))
        THEN BuildRaised(Exc("ValueError", <<"format">>))
        ELSE Built(RecIntent(Get(intent_data, "task_type", JStr(<<"other">>)),
                             Get(intent_data, "sub_type", JNull),
                             EnsureUserRequest(parameters, raw),
                             Get(intent_data, "confidence", JNum(50))))

\* a variant of the except block that lets the exception through
RecognizeOutcomeRaising(raw, tried) ==
    IF tried.exc # NoExc
    THEN [kind |-> "raise", intent |-> FallbackIntent(raw), exc |-> tried.exc]
    ELSE [kind |-> "return", intent |-> tried.intent, exc |-> NoExc]

\* how recognize ends, given the outcome of its try block
RecognizeOutcome(raw, tried) ==
    IF tried.exc # NoExc
    THEN [kind |-> "return", intent |-> FallbackIntent(raw), exc |-> NoExc]
    ELSE [kind |-> "return", intent |-> tried.intent, exc |-> NoExc]

RecNotEnded == [kind |-> "none", intent |-> FallbackIntent(<<>>), exc |-> NoExc]

\* the user texts explored
RawTexts == {<<"draw", " ", "SINE">>, <<"hello">>, <<"the", " ", "user_request">>}

\* what the LLM answers to the prompt of recognize
RecObjects ==
    { <<"{">> \o body \o <<"}">> :
        body \in { <<t, ",", c, ",", q>> :
                     t \in {"task_plot", "task_web"},
                     c \in {"confidence_90", "confidence_high", "confidence_null"},
                     q \in {"parameters_empty", "parameters_url", "parameters_request",
                            "parameters_request_5", "parameters_null",
                            "parameters_list", "parameters_list_key",
                            "parameters_text", "parameters_text_key"} } }

RecContents ==
    RecObjects
    \cup { << >>, << "it is a plot" >>, << "{", "task_plot" >>,
           << "{", "}" >>, << "{", " ", "sub_sine_wave", " ", "}" >>,
           << "{", "oops", "}" >>, << "{", "task_plot", "confidence_90", "}" >>,
           << "sure", ":", "\n", "{", "task_plot", ",", "sub_sine_wave", "}", "\n" >>,
           << "{", "task_plot", "}", " ", "or", " ", "{", "task_web", "}" >>,
           << "{", "task_plot", ",", "task_web", "}" >> }

RecReplies ==
    { LLMReply("no_models", FALSE, <<>>), LLMReply("raise", FALSE, <<>>),
      LLMReply("reply", FALSE, <<"rate limited">>) }
    \cup { LLMReply("reply", TRUE, c) : c \in RecContents }

\* IntentRecognizer.recognize is called: it runs to the await of the LLM call
Recognize(raw) ==
    /\ rec_pc = "idle"
    /\ rec_pc' = "llm"
    /\ raw_request' = raw
    /\ UNCHANGED <<rec_reply, recognized>>

\* the LLM call of recognize ends
RecognizerLLMReturns(reply) ==
    /\ rec_pc = "llm"
    /\ rec_pc' = "done"
    /\ rec_reply' = Some(reply)
    /\ recognized' = RecognizeOutcome(raw_request, TryRecognize(raw_request, reply))
    /\ UNCHANGED raw_request

RecInit ==
    /\ rec_pc = "idle"
    /\ raw_request = <<>>
    /\ rec_reply = None
    /\ recognized = RecNotEnded

----------------------------------------------------------------------------
(* The result shaper: ResultOptimizer.optimize and its renderings *)

VARIABLES
    shape_pc,      \* "idle" until optimize was called, then "done"
    shape_config,  \* what ResultOptimizer.__init__ read from its config
    shape_trace,   \* the raw trace the result was made from, None or Some(trace)
    raw_result,    \* the argument raw_result of optimize
    result_type,   \* the local result_type of optimize, "" while unset
    optimized      \* how optimize ended

shapeVars == <<shape_pc, shape_config, shape_trace, raw_result, result_type, optimized>>

\* the largest max_output_length explored, in tokens (the default is 1000)
MaxOutputLength == 2

\* self.max_output_length: an int, or a value read from the config that is none
ShapeConfig(isInt, max_output_length) ==
    [isInt |-> isInt, max_output_length |-> max_output_length]

\* a variant that tests the images before the success flag
_classify_result_images_first(result) ==
    IF result.images # <<>> THEN "success_with_image"
    ELSE IF ~result.success THEN "error"
    ELSE IF result.output # <<>> /\ Strip(result.output) # <<>> THEN "success_with_output"
    ELSE "empty"

\* ResultOptimizer._classify_result
_classify_result(result) ==
    IF ~result.success THEN "error"
    ELSE IF result.images # <<>> THEN "success_with_image"
    ELSE IF result.output # <<>> /\ Strip(result.output) # <<>> THEN "success_with_output"
    ELSE "empty"

\* the rule of forty box-drawing characters
RuleLine == <<"----">>

\* The outcome of a rendering: it raised exc, or it returned text.
Rendered(text) == [exc |-> NoExc, text |-> text]
RenderRaised(exc) == [exc |-> exc, text |-> <<>>]

\* len(output) > self.max_output_length raises for a bound that is no number
CompareRaises(cfg) == ~cfg.isInt

\* line 139: the marker appended to the output cut in the image rendering
OutputTruncationMarker == <<"\n...(output too long, truncated)">>

\* ResultOptimizer._optimize_image_result
_optimize_image_result(result, cfg) ==
    LET output == Strip(result.output)
        shown == IF Len(output) > cfg.max_output_length
                 THEN Slice(output, cfg.max_output_length) \o OutputTruncationMarker
                 ELSE output
        info == IF output # <<>>
                THEN << <<"execution info">>, RuleLine, shown, RuleLine >>
                ELSE << >>
    IN  IF output # <<>> /\ CompareRaises(cfg) THEN RenderRaised(TypeError)
        ELSE Rendered(JoinLines(
                 << <<"[ok] chart generated">>, RuleLine >> \o info
                 \o << <<"generated ", ToString(Len(result.images)), " image(s)">>,
                       <<"images were sent automatically">> >>))

\* ResultOptimizer._optimize_text_result
_optimize_text_result(result, cfg) ==
    LET output == Strip(result.output)
    IN  IF CompareRaises(cfg) THEN RenderRaised(TypeError)
        ELSE IF Len(output) > cfg.max_output_length
        THEN Rendered(JoinLines(
                 << <<"[ok] done">>, RuleLine, <<"output (truncated)">>, RuleLine,
                    Slice(output, cfg.max_output_length), RuleLine,
                    <<"output too long, first ", ToString(cfg.max_output_length),
                      " characters kept">> >>))
        ELSE Rendered(JoinLines(
                 << <<"[ok] done">>, RuleLine, <<"output">>, RuleLine, output, RuleLine >>))

\* the exception names _analyze_error looks for, in its order
KnownErrors ==
    << "ModuleNotFoundError", "SyntaxError", "NameError", "TypeError", "ValueError",
       "IndexError", "KeyError", "FileNotFoundError" >>

\* ResultOptimizer._analyze_error: the suggestions for the first name found
_analyze_error(error_msg) ==
    LET found == {i \in 1..Len(KnownErrors) : KeywordIn(error_msg, KnownErrors[i])}
        first == CHOOSE i \in found : \A j \in found : i <= j
    IN  IF KeywordIn(error_msg, "No module named") THEN << <<"hint: ", KnownErrors[1]>> >>
        ELSE IF found # {} THEN << <<"hint: ", KnownErrors[first]>> >>
        ELSE << <<"hint: ", "check the logic of the code">> >>

\* ResultOptimizer._optimize_error_result
_optimize_error_result(result) ==
    LET error_msg == IF result.error # None /\ result.error[1] # <<>>
                     THEN result.error[1] ELSE <<"unknown error">>
        suggestions == _analyze_error(error_msg)
    IN  Rendered(JoinLines(
            << <<"[failed] execution failed">>, RuleLine, <<"error message">>, RuleLine,
               error_msg, RuleLine, <<>>, <<"possible causes and suggestions">>, RuleLine >>
            \o suggestions \o << RuleLine >>))

\* ResultOptimizer._optimize_generic_result
_optimize_generic_result(result) == Rendered(<<"[ok] executed (no output)">>)

\* an image delivered as bytes, not as text
IsBytes(img) == img = "bytes"

\* ResultOptimizer._format_raw_result: "\n".join(result.images) raises for bytes
_format_raw_result(result) ==
    IF ~result.success
    THEN Rendered(<<"[failed]", "\n", "\n", "error:", "\n">>
                  \o (IF result.error = None THEN <<"None">> ELSE result.error[1]))
    ELSE IF result.images # <<>>
    THEN IF \E i \in 1..Len(result.images) : IsBytes(result.images[i])
         THEN RenderRaised(TypeError)
         ELSE Rendered(<<"[ok]", "\n", "\n", "images:", "\n">>
                       \o JoinLines([i \in 1..Len(result.images) |-> <<result.images[i]>>]))
    ELSE IF result.output # <<>>
    THEN Rendered(<<"[ok]", "\n", "\n", "output:", "\n">> \o result.output)
    ELSE Rendered(<<"[ok] (no output)">>)

\* the try block of optimize; self.llm is None (plugin.py line 206), so the
\* summary step is skipped
TryOptimize(result, cfg) ==
    CASE _classify_result(result) = "success_with_image" ->
             _optimize_image_result(result, cfg)
      [] _classify_result(result) = "success_with_output" ->
             _optimize_text_result(result, cfg)
      [] _classify_result(result) = "error" -> _optimize_error_result(result)
      [] OTHER -> _optimize_generic_result(result)

ShapeReturned(text) == [kind |-> "return", text |-> text, exc |-> NoExc]
ShapeRaised(exc) == [kind |-> "raise", text |-> <<>>, exc |-> exc]
ShapeNotEnded == [kind |-> "none", text |-> <<>>, exc |-> NoExc]

\* how optimize ends: the rendering, or the fallback of the except block
OptimizeOutcome(result, cfg) ==
    IF TryOptimize(result, cfg).exc = NoExc
    THEN ShapeReturned(TryOptimize(result, cfg).text)
    ELSE IF _format_raw_result(result).exc = NoExc
    THEN ShapeReturned(_format_raw_result(result).text)
    ELSE ShapeRaised(_format_raw_result(result).exc)

\* the results explored
ShapeOutputs == { <<>>, <<" ", "\n">>, <<"42">>, <<" ", "a", "b", "c", "d", "\n">> }

ShapeErrors ==
    { None, Some(<<>>), Some(<<"Execution timed out">>),
      Some(<<"NameError", ": ", "name 'x' is not defined", "\n", "Traceback", "line 1">>) }

ShapeImages == { <<>>, <<"bytes">>, <<"bytes", "bytes">>, <<"iVBORw0KGgo">> }

ShapeResults ==
    { ExecutionResult(success, output, error, images) :
        success \in BOOLEAN, output \in ShapeOutputs,
        error \in ShapeErrors, images \in ShapeImages }

ShapeConfigs ==
    { ShapeConfig(TRUE, n) : n \in 1..MaxOutputLength } \cup { ShapeConfig(FALSE, 0) }

\* ResultOptimizer.optimize, for any result
Optimize(result, cfg) ==
    /\ shape_pc = "idle"
    /\ shape_pc' = "done"
    /\ shape_config' = cfg
    /\ shape_trace' = None
    /\ raw_result' = result
    /\ result_type' = _classify_result(result)
    /\ optimized' = OptimizeOutcome(result, cfg)

\* stderr texts: download progress, warnings and kernel banners, alone or
\* next to the text of a failure, and texts without any of the keywords
StderrTexts ==
    { <<"% Total", " ", "% Received">>, <<" ", "100 ", "Speed", "\n">>,
      <<"DeprecationWarning", ": ", "x is deprecated">>, <<"ipykernel", " ", "banner">>,
      <<"ZeroDivisionError", ": ", "division by zero", "\n", "Dload">>,
      <<"ZeroDivisionError", ": ", "division by zero">>, <<"speed">>, <<" ">> }

\* traces without an error object, with output on stdout or none, and with
\* one of the stderr texts as a string or as a list of chunks
NoiseTraces ==
    { RawTrace(TRUE, None, results, Stream("list", out), Stream(kind, << err >>)) :
        results \in {<<>>, <<"png_bytes">>},
        out \in {<<>>, << <<"42">> >>, << <<"a", "b", "c">>, <<"\n">> >>},
        kind \in {"list", "str"}, err \in StderrTexts }

\* the traces _process_execution_result accepts
ShapeTraces == {trace \in RunTraces : ~ProcessRaises(trace)} \cup NoiseTraces

\* ResultOptimizer.optimize, for the result the runner made of a raw trace
OptimizeTrace(trace, cfg) ==
    LET result == _process_execution_result(trace, MaxStdoutLength)
    IN  /\ shape_pc = "idle"
        /\ shape_pc' = "done"
        /\ shape_config' = cfg
        /\ shape_trace' = Some(trace)
        /\ raw_result' = result
        /\ result_type' = _classify_result(result)
        /\ optimized' = OptimizeOutcome(result, cfg)

ShapeInit ==
    /\ shape_pc = "idle"
    /\ shape_config = ShapeConfig(TRUE, MaxOutputLength)
    /\ shape_trace = None
    /\ raw_result = NoResult
    /\ result_type = ""
    /\ optimized = ShapeNotEnded

----------------------------------------------------------------------------
(* The tool: E2BSandboxTool of plugin.py *)

VARIABLES
    chat_id,      \* self.chat_id: the conversation the tool serves, or None
    code_hashes,  \* self.code_hashes: session id -> digest stored for it
    checks,       \* per session id, the calls of _check_duplicate so far:
                  \* the code checked and the answer returned
    turns,        \* the calls of execute so far: the stripped request,
                  \* whether CodeExecutor.execute was called, the kind of
                  \* content returned, the stages called in order, the
                  \* code generate returned and the code handed to
                  \* CodeExecutor.execute
    enable_intent_recognition
                  \* self.config["llm"]["enable_intent_recognition"]

toolVars == <<chat_id, code_hashes, checks, turns, enable_intent_recognition>>

\* the number of calls of _check_duplicate explored
MaxChecks == 3

\* the number of calls of execute explored
MaxTurns == 2

SessionIds == {"default_session", "s1"}

\* two different texts of one MD5 digest
CollisionA ==
    "TEXTCOLLBYfGiJUETHQ4hAcKSMd5zYpgqf1YRDhkmxHkhPWptrkoyz28wnI9V0aHeAuaKnak"

CollisionB ==
    "TEXTCOLLBYfGiJUETHQ4hEcKSMd5zYpgqf1YRDhkmxHkhPWptrkoyz28wnI9V0aHeAuaKnak"

\* the code texts handed to _check_duplicate
DupCodes == {<<"print(1)">>, <<CollisionA>>, <<CollisionB>>}

\* plugin.py line 125: hashlib.md5(code.encode('utf-8')).hexdigest(), by
\* the digests of the texts explored
md5(c) ==
    CASE c = <<"print(1)">> -> "186bdbe41e79ea696410ba0a9e8d2762"
      [] c = <<"print(2)">> -> "9edde4c293c025628eeee871e6d6b414"
      [] c = <<CollisionA>> -> "faad49866e9498fc1719f5289e7a0269"
      [] c = <<CollisionB>> -> "faad49866e9498fc1719f5289e7a0269"
      [] OTHER -> "d41d8cd98f00b204e9800998ecf8427e"

\* plugin.py lines 123-129: the answer of _check_duplicate and the map it
\* leaves; hashes[session_id] = None stands for a missing key
_check_duplicate(hashes, session_id, c) ==
    LET code_hash == md5(c)
    IN  IF hashes[session_id] = Some(code_hash)
        THEN [flagged |-> TRUE, code_hashes |-> hashes]
        ELSE [flagged |-> FALSE,
              code_hashes |-> [hashes EXCEPT ![session_id] = Some(code_hash)]]

TotalChecks == Len(checks["default_session"]) + Len(checks["s1"])

\* a call of _check_duplicate
CheckDuplicate(session_id, c) ==
    /\ TotalChecks < MaxChecks
    /\ LET answer == _check_duplicate(code_hashes, session_id, c)
       IN  /\ code_hashes' = answer.code_hashes
           /\ checks' = [checks EXCEPT ![session_id] =
                            Append(@, [code |-> c, flagged |-> answer.flagged])]
    /\ UNCHANGED <<chat_id, turns, enable_intent_recognition>>

\* the requests handed to execute as function_args["code"]
ToolRequests == {<<" ", "\n">>, <<"print(1)">>, <<"print(2)">>}

\* the code CodeGenerator.generate returns
GenCodes == {<<"import numpy">>}

\* how the stages of a turn end: CodeGenerator.generate returns code or
\* raises, CodeExecutor.execute returns a result or raises, and
\* ResultOptimizer.optimize returns a text or raises
StageOutcomes == [gen : {"code", "raise"}, code : GenCodes,
                  exe : {"result", "raise"}, shp : {"text", "raise"}]

\* plugin.py line 190
SessionOf(chat) == IF chat = None THEN "default_session" ELSE chat[1]

\* lines 208-246: IntentRecognizer.recognize is awaited when the
\* configuration enables it, else the Intent is built in place
FirstCalls(recognition) == IF recognition THEN <<"recognize">> ELSE <<>>

\* a turn that hands the request itself to CodeExecutor.execute, whatever
\* generate did
ToolTurnSpeculative(chat, recognition, request, stages) ==
    LET stripped == Strip(request)
    IN  [session |-> SessionOf(chat), request |-> stripped,
         executed |-> TRUE, content |-> "result",
         calls |-> FirstCalls(recognition) \o <<"generate", "execute", "optimize">>,
         generated |-> IF stages.gen = "raise" THEN None ELSE Some(stages.code),
         code |-> Some(stripped)]

\* plugin.py lines 178-386: what a call of execute does, given how its
\* stages end; _check_duplicate is called nowhere in it
ToolTurn(chat, recognition, request, stages) ==
    LET stripped == Strip(request)
        base == [session |-> SessionOf(chat), request |-> stripped]
        first == FirstCalls(recognition)
    IN  IF stripped = <<>>
        THEN base @@ [executed |-> FALSE, content |-> "empty request",
                      calls |-> <<>>, generated |-> None, code |-> None]
        ELSE IF stages.gen = "raise"
        THEN base @@ [executed |-> FALSE, content |-> "runtime error",
                      calls |-> first \o <<"generate">>,
                      generated |-> None, code |-> None]
        ELSE IF stages.exe = "raise"
        THEN base @@ [executed |-> TRUE, content |-> "runtime error",
                      calls |-> first \o <<"generate", "execute">>,
                      generated |-> Some(stages.code), code |-> Some(stages.code)]
        ELSE IF stages.shp = "raise"
        THEN base @@ [executed |-> TRUE, content |-> "runtime error",
                      calls |-> first \o <<"generate", "execute", "optimize">>,
                      generated |-> Some(stages.code), code |-> Some(stages.code)]
        ELSE base @@ [executed |-> TRUE, content |-> "result",
                      calls |-> first \o <<"generate", "execute", "optimize">>,
                      generated |-> Some(stages.code), code |-> Some(stages.code)]

\* a call of execute, from its first line to its return
ToolExecute(request, stages) ==
    /\ Len(turns) < MaxTurns
    /\ turns' = Append(turns, ToolTurn(chat_id, enable_intent_recognition,
                                       request, stages))
    /\ UNCHANGED <<chat_id, code_hashes, checks, enable_intent_recognition>>

\* plugin.py lines 104-110
ToolInit ==
    /\ chat_id \in {None, Some("s1")}
    /\ enable_intent_recognition \in BOOLEAN
    /\ code_hashes = [x \in SessionIds |-> None]
    /\ checks = [x \in SessionIds |-> <<>>]
    /\ turns = <<>>

----------------------------------------------------------------------------
(* The template catalog: TemplateLibrary of template_library.py *)

VARIABLES
    lib_templates,  \* self.templates: the names and the templates registered
    match_request,  \* the argument user_request of match, None before the call
    matched         \* what match returned or raised

catalogVars == <<lib_templates, match_request, matched>>

\* the number of words of the requests handed to match
MaxWords == 3

\* The intent_keywords each template declares (templates/*.py, line 14 or
\* 16), in pinyin as above; paqu is "crawl" and boxing is "waveform".
intent_keywords(name) ==
    CASE name = "web_scrape_title" -> {"wangye", "biaoti", "title", "zhuaqu", "paqu"}
      [] name = "web_screenshot" -> {"wangye", "jietu", "screenshot", "jieping", "zhuatu"}
      [] name = "plot_sine_wave" -> {"zhengxian", "sin", "sine", "quxian", "boxing"}
      [] OTHER -> {}

\* the words of the requests
MatchWords ==
    {"Screenshot", "https://a.io", "Title", "zhuaqu", "SINE", "quxian", "boxing",
     "paqu", "hello"}

RECURSIVE WordSeqs(_)
WordSeqs(n) ==
    IF n = 0 THEN {<<>>}
    ELSE WordSeqs(n - 1)
         \cup {Append(q, w) : q \in {x \in WordSeqs(n - 1) : Len(x) = n - 1},
                              w \in MatchWords}

\* the requests handed to match
MatchRequests == {Str(q) : q \in WordSeqs(MaxWords)}

\* TemplateLibrary.match is called and returns
Match(user_request) ==
    /\ match_request = None
    /\ match_request' = Some(user_request)
    /\ matched' = TemplateLibrary_match(user_request)
    /\ UNCHANGED lib_templates

\* a second library is built for the next request (plugin.py line 203)
NewLibrary ==
    /\ match_request # None
    /\ match_request' = None
    /\ matched' = Found(None)
    /\ lib_templates' = Templates

\* TemplateLibrary.__init__
CatalogInit ==
    /\ lib_templates = Templates
    /\ match_request = None
    /\ matched = Found(None)

vars == <<runnerVars, genVars, recVars, shapeVars, toolVars, catalogVars>>

\* the variables each part of the program leaves alone
NotRunner == <<genVars, recVars, shapeVars, toolVars, catalogVars>>
NotGen == <<runnerVars, recVars, shapeVars, toolVars, catalogVars>>
NotRec == <<runnerVars, genVars, shapeVars, toolVars, catalogVars>>
NotShape == <<runnerVars, genVars, recVars, toolVars, catalogVars>>
NotTool == <<runnerVars, genVars, recVars, shapeVars, catalogVars>>
NotCatalog == <<runnerVars, genVars, recVars, shapeVars, toolVars>>

\* a tool that serves no conversation and was never called
ToolIdle == ToolInit /\ chat_id = None /\ enable_intent_recognition

Init == RunnerInit /\ GenInit /\ RecInit /\ ShapeInit /\ ToolIdle /\ CatalogInit

Next ==
    \/ \E t \in Turns, c \in Codes : Call(t, c) /\ UNCHANGED NotRunner
    \/ \E t \in Turns, res \in CreateOutcomes : CreateReturns(t, res) /\ UNCHANGED NotRunner
    \/ \E t \in Turns : SleepDone(t) /\ UNCHANGED NotRunner
    \/ \E t \in Turns, res \in RunOutcomes : RunReturns(t, res) /\ UNCHANGED NotRunner
    \/ \E e \in 1..Len(envs), res \in {"ok", "failed", "timeout"} :
           KillFinish(e, res) /\ UNCHANGED NotRunner
    \/ \E t \in Turns : Cancel(t) /\ UNCHANGED NotRunner
    \/ CloseLoop /\ UNCHANGED NotRunner
    \/ \E t \in Turns : Finalize(t) /\ UNCHANGED NotRunner

Spec == Init /\ [][Next]_vars

\* The synthesizer alone, under the default configuration of the runner
DefaultConfig ==
    [api_key |-> "key", max_retries |-> MaxRetriesSetting,
     timeout |-> DefaultTimeout, max_stdout_length |-> MaxStdoutLength]

RunnerIdle == RunnerInit /\ config = DefaultConfig

InitGen == RunnerIdle /\ GenInit /\ RecInit /\ ShapeInit /\ ToolIdle /\ CatalogInit

NextGen ==
    \/ \E it \in Intents, llm_enabled \in BOOLEAN :
           Generate(it, llm_enabled) /\ UNCHANGED NotGen
    \/ \E reply \in LLMReplies : TemplateLLMReturns(reply) /\ UNCHANGED NotGen
    \/ \E reply \in LLMReplies : FreeLLMReturns(reply) /\ UNCHANGED NotGen

SpecGen == InitGen /\ [][NextGen]_vars

\* The recognizer alone
InitRec == RunnerIdle /\ GenInit /\ RecInit /\ ShapeInit /\ ToolIdle /\ CatalogInit

NextRec ==
    \/ \E raw \in RawTexts : Recognize(raw) /\ UNCHANGED NotRec
    \/ \E reply \in RecReplies : RecognizerLLMReturns(reply) /\ UNCHANGED NotRec

SpecRec == InitRec /\ [][NextRec]_vars

\* The shaper alone
InitShape == RunnerIdle /\ GenInit /\ RecInit /\ ShapeInit /\ ToolIdle /\ CatalogInit

NextShape ==
    \/ \E result \in ShapeResults, cfg \in ShapeConfigs :
           Optimize(result, cfg) /\ UNCHANGED NotShape
    \/ \E trace \in ShapeTraces, cfg \in ShapeConfigs :
           OptimizeTrace(trace, cfg) /\ UNCHANGED NotShape

SpecShape == InitShape /\ [][NextShape]_vars

\* The tool alone
InitTool == RunnerIdle /\ GenInit /\ RecInit /\ ShapeInit /\ ToolInit /\ CatalogInit

NextTool ==
    \/ \E session_id \in SessionIds, c \in DupCodes :
           CheckDuplicate(session_id, c) /\ UNCHANGED NotTool
    \/ \E request \in ToolRequests, stages \in StageOutcomes :
           ToolExecute(request, stages) /\ UNCHANGED NotTool

SpecTool == InitTool /\ [][NextTool]_vars

\* The catalog alone
InitCatalog == RunnerIdle /\ GenInit /\ RecInit /\ ShapeInit /\ ToolIdle /\ CatalogInit

NextCatalog ==
    \/ \E user_request \in MatchRequests : Match(user_request) /\ UNCHANGED NotCatalog
    \/ NewLibrary /\ UNCHANGED NotCatalog

SpecCatalog == InitCatalog /\ [][NextCatalog]_vars

\* The runner with its timers: the timeouts of asyncio.wait_for around
\* create, run_code and kill fire, asyncio.sleep ends, and the coroutines of
\* a closed loop are destroyed; the execution service itself owes nothing
TimerFires(t) ==
    \/ CreateReturns(t, <<"TimeoutError">>)
    \/ SleepDone(t)
    \/ \E res \in RunOutcomes : res.kind = "TimeoutError" /\ RunReturns(t, res)
    \/ \E e \in 1..Len(envs) : envs[e].owner = t /\ KillFinish(e, "timeout")
    \/ Finalize(t)

LiveSpec == Spec /\ \A t \in Turns : WF_vars(TimerFires(t) /\ UNCHANGED NotRunner)

\* The recognizer once called: recognize wraps its LLM call in no timer, so
\* nothing but the caller's step is owed
LiveSpecRec ==
    SpecRec /\ WF_vars((\E raw \in RawTexts : Recognize(raw)) /\ UNCHANGED NotRec)

\* The synthesizer once called, likewise
LiveSpecGen ==
    SpecGen /\ WF_vars((\E it \in Intents, llm_enabled \in BOOLEAN :
                            Generate(it, llm_enabled)) /\ UNCHANGED NotGen)


----------------------------------------------------------------------------
(* The sandbox runner's properties *)

\* the environments the execution service provisioned for turn t
OwnedEnvs(t) == {e \in 1..Len(envs) : envs[e].owner = t}

\* turn t's call of execute ended by returning or raising to its caller
\* (not by the destruction of its coroutine)
Ended(t) == pc[t] = "done" /\ outcome[t].exc.type # "GeneratorExit"

\* C1: a call of execute that provisioned an environment and has ended has
\* invoked kill on that environment exactly once, holds no handle any more,
\* and ends as its try block decided whatever the kill did; when run_code
\* returned, timed out or raised, it ends by returning a result.
C1_TeardownOnEveryPath ==
    \A t \in Turns :
        (Ended(t) /\ OwnedEnvs(t) # {}) =>
            /\ \A e \in OwnedEnvs(t) : envs[e].kills = 1
            /\ sandbox[Holder(t)] = None
            /\ outcome[t] = pending[t]
            /\ (ran[t] \in {"trace", "TimeoutError", "Exception"}
                    => outcome[t].kind = "return")

\* C1 witness: a run whose run_code raised returned its result although the
\* kill of its environment failed
C1_Witness ==
    \E t \in Turns :
        /\ Ended(t) /\ ran[t] = "Exception" /\ outcome[t].kind = "return"
        /\ \E e \in OwnedEnvs(t) : envs[e].kills = 1 /\ envs[e].killTask = "failed"

TimeoutMarker == "code execution timed out, limit "

\* C2: once run_code timed out, kill has been invoked on the environment, the
\* turn makes no further create call and no further run_code call, and the
\* call returns a failed result whose error is the timeout message.
C2_ExecutionTimeoutIsTerminal ==
    /\ [](\A t \in Turns :
            ran[t] = "TimeoutError" =>
                /\ \A e \in OwnedEnvs(t) : envs[e].kills = 1 /\ envs[e].execs = 1
                /\ Ended(t) =>
                     /\ outcome[t].kind = "return"
                     /\ ~outcome[t].result.success
                     /\ outcome[t].result.error # None
                     /\ Contains(outcome[t].result.error[1], TimeoutMarker))
    /\ [][\A t \in Turns :
            ran[t] = "TimeoutError" =>
                /\ provisions'[t] = provisions[t]
                /\ \A e \in OwnedEnvs(t) : envs'[e].execs = envs[e].execs]_vars

\* C2 witness: a run whose run_code timed out has returned
C2_Witness ==
    \E t \in Turns :
        ran[t] = "TimeoutError" /\ Ended(t) /\ outcome[t].kind = "return"

\* C3: a turn cancelled while it had an environment has invoked kill on it,
\* and the kill task was not cancelled with the turn.
C3_CancelledTurnStillTerminates ==
    \A t \in Turns :
        cancelled[t] =>
            \A e \in OwnedEnvs(t) :
                /\ envs[e].kills = 1
                /\ envs[e].killTask \in {"running", "ok", "failed", "timeout"}

\* C3 witness: a turn was cancelled while it awaited the kill, and the kill
\* task ran to completion afterwards
C3_Witness ==
    \E t \in Turns :
        /\ cancelled[t] /\ pc[t] = "done" /\ ran[t] = "trace"
        /\ \E e \in OwnedEnvs(t) : envs[e].killTask = "ok"

\* the call gave up provisioning: every create call it made failed with a
\* timeout or a connectivity error, and it was not cancelled
Exhausted(t) ==
    /\ Ended(t)
    /\ outcome[t].exc.type # "CancelledError"
    /\ failures[t] >= 1
    /\ failures[t] = provisions[t]

\* C4 (as claimed): a call that gave up provisioning made max_retries + 1
\* create calls, the first attempt and max_retries retries.
C4_FirstAttemptPlusRetries ==
    \A t \in Turns : Exhausted(t) => provisions[t] = config.max_retries + 1

FatalCreateError == <<"401", " ", "Unauthorized">>

\* C5: when a create call fails with an error that is neither a timeout nor
\* a connectivity error, the call ends at once by raising that error: no
\* create call and no back-off follow, and no code was executed.
C5_FatalProvisioningAborts ==
    \A t \in Turns :
        lastCreate[t] = FatalCreateError =>
            /\ pc[t] = "done"
            /\ outcome[t] = Raised(Exc("Exception", FatalCreateError))
            /\ provisions[t] = failures[t] + 1
            /\ slept[t] <= 3 * failures[t]
            /\ OwnedEnvs(t) = {}
            /\ \A e \in 1..Len(envs) : t \notin envs[e].users

\* C5 witness: a fatal failure that came after a retried one
C5_Witness ==
    \E t \in Turns : lastCreate[t] = FatalCreateError /\ failures[t] >= 1

EnumeratesCauses(msg) ==
    /\ Contains(msg, "possible causes:")
    /\ Contains(msg, "1. proxy server unavailable")
    /\ Contains(msg, "2. network connection problem")
    /\ Contains(msg, "3. invalid API key")

\* C6 (as claimed): a call that gave up provisioning raises an error whose
\* message enumerates the likely causes, whatever failed last.
C6_CausesWhateverFailedLast ==
    \A t \in Turns :
        Exhausted(t) =>
            outcome[t].kind = "raise" /\ EnumeratesCauses(outcome[t].exc.msg)

\* C6 (amended): a call that gave up provisioning raises a RuntimeError; its
\* message enumerates the likely causes when the last attempt failed with a
\* connectivity error, and when the last attempt timed out it names the
\* retry count and the timeout instead, without the causes.
C6_CausesIffConnectivityLast ==
    \A t \in Turns :
        Exhausted(t) =>
            /\ outcome[t].kind = "raise"
            /\ outcome[t].exc.type = "RuntimeError"
            /\ IF lastCreate[t] = <<"TimeoutError">>
               THEN /\ ~EnumeratesCauses(outcome[t].exc.msg)
                    /\ Contains(outcome[t].exc.msg, "create sandbox failed: retried ")
                    /\ Contains(outcome[t].exc.msg, "create sandbox timed out, attempt ")
               ELSE /\ EnumeratesCauses(outcome[t].exc.msg)
                    /\ Contains(outcome[t].exc.msg, lastCreate[t][1])

\* C6 witness: the call gave up after a connectivity error and then a timeout
C6_Witness ==
    \E t \in Turns :
        Exhausted(t) /\ lastCreate[t] = <<"TimeoutError">> /\ slept[t] = 3

BlankCode(c) == \A i \in 1..Len(c) : c[i] \in {" ", "\n"}

\* C7: a call with empty or whitespace-only code, or without an API key, has
\* ended by raising ValueError, and made no create, run_code or kill call.
C7_ValidationBeforeService ==
    \A t \in Turns :
        (pc[t] # "idle" /\ (BlankCode(code[t]) \/ config.api_key = "")) =>
            /\ pc[t] = "done"
            /\ outcome[t].kind = "raise"
            /\ outcome[t].exc.type = "ValueError"
            /\ provisions[t] = 0
            /\ OwnedEnvs(t) = {}
            /\ \A e \in 1..Len(envs) : t \notin envs[e].users

\* C7 witness: a call with whitespace-only code under a configured API key
C7_Witness ==
    \E t \in Turns :
        pc[t] = "done" /\ code[t] = <<" ", "\n">> /\ config.api_key = "key"

\* C8: every result execute returns has success exactly when error is None.
C8_SuccessIffNoError ==
    \A t \in Turns :
        outcome[t].kind = "return" =>
            (outcome[t].result.success <=> outcome[t].result.error = None)

\* C8 witness: the results of a normalized trace with images, of a timeout
\* and of an exception have been returned
C8_Witness ==
    /\ \E t \in Turns :
        /\ outcome[t].kind = "return" /\ ran[t] = "trace"
        /\ outcome[t].result.success /\ outcome[t].result.images # <<>>
    /\ \E t \in Turns :
        outcome[t].kind = "return" /\ ran[t] \in {"TimeoutError", "Exception"}

\* C9: a turn has at most one environment, made by its own create call, and
\* stops provisioning at the first success; an environment receives at most
\* one run_code call, and only its own turn executes on it or kills it; a
\* turn that executes holds its own environment.
C9_OwnEnvironmentOnly ==
    /\ \A t \in Turns :
        /\ Cardinality(OwnedEnvs(t)) <= 1
        /\ OwnedEnvs(t) # {} => provisions[t] = failures[t] + 1
        /\ pc[t] \in {"running", "cleaning"} => OwnedEnvs(t) # {}
        /\ pc[t] = "running" => sandbox[Holder(t)] = Some(CHOOSE e \in OwnedEnvs(t) : TRUE)
    /\ \A e \in 1..Len(envs) :
        /\ envs[e].execs <= 1
        /\ envs[e].kills <= 1
        /\ envs[e].users \subseteq {envs[e].owner}

\* C9 witness: two turns execute at the same time, each on its environment
C9_Witness ==
    /\ \A t \in Turns : pc[t] = "running"
    /\ Len(envs) = 2

----------------------------------------------------------------------------
(* CodeGenerator.generate: the four tiers *)

GenEnded == gen_pc = "done"

TierEntered(n) == \E i \in 1..Len(tiers) : tiers[i].tier = n

\* the fixed tag of each tier: source and confidence (in hundredths)
TierTag(n) ==
    CASE n = 1 -> <<"llm_template", 95>>
      [] n = 2 -> <<"llm", 75>>
      [] OTHER -> <<"template", 90>>

\* The tiers are entered in the fixed order, the first only for a confidence
\* above 0.7 and a task type other than "other", a later one only after every
\* earlier one that was entered did not return; and returned code is the output
\* of the last tier entered and carries that tier's tag.
C10_OrderAndTags ==
    GenEnded =>
        /\ TierEntered(1) => intent.confidence > 70 /\ intent.task_type # "other"
        /\ \A i, j \in 1..Len(tiers) : i < j => tiers[i].tier < tiers[j].tier
        /\ \A i \in 1..(Len(tiers) - 1) : tiers[i].ended \in {"failed", "no_template"}
        /\ generated.kind = "return" =>
               /\ tiers # <<>>
               /\ tiers[Len(tiers)].ended = "returned"
               /\ <<generated.result.source, generated.result.confidence>>
                      = TierTag(tiers[Len(tiers)].tier)

\* A failure inside a tier, its template lookup included, falls through to the
\* next tier: generate raises only the error of the fourth tier, after the
\* third tier found no template.
C10_FailureFallsThrough ==
    GenEnded =>
        /\ \A i \in 1..Len(tiers) : tiers[i].ended # "lookup_raised"
        /\ generated.kind = "raise" => generated.exc = GenerationExhausted

\* C10: generate returns the output of the first tier that succeeds in the
\* order template + LLM, free LLM generation, template filling; the first tier
\* is attempted only when confidence > 0.7 and task_type is not "other"; a later
\* tier is attempted only after every earlier applicable tier failed; a failure
\* inside any tier, its template lookup included, falls through to the next tier
\* instead of aborting; and the result carries the tier's fixed tag.
C10_FirstSucceedingTier == C10_OrderAndTags /\ C10_FailureFallsThrough

\* the lookup of generate found a template for the intent
TemplateFound(it) == _match_template(it).template # None

\* the lookup of generate can raise for the intent
LookupRaises(it) == _match_template(it).exc # NoExc

\* LLM generation is disabled, or no LLM tier that was entered returned code
LLMExhausted ==
    \/ ~llm_config.enable_code_generation
    \/ \A i \in 1..Len(tiers) : tiers[i].tier \in {1, 2} => tiers[i].ended # "returned"

RaisedExhausted == generated.kind = "raise" /\ generated.exc = GenerationExhausted

\* C11: generate raises the generation-exhausted error, which names both causes,
\* if and only if no template is found for the intent by exact or fuzzy lookup
\* and LLM generation is disabled or failed in every LLM tier attempted;
\* whenever a template is found, generate returns code.
C11_ExhaustedIffNothingLeft ==
    GenEnded =>
        /\ RaisedExhausted <=> (~TemplateFound(intent) /\ LLMExhausted)
        /\ TemplateFound(intent) => generated.kind = "return"
        /\ RaisedExhausted =>
               /\ Contains(generated.exc.msg, "- no matching template")
               /\ Contains(generated.exc.msg, "- LLM generation failed or disabled")

\* the same, for the intents whose lookup cannot raise
C11_ExhaustedWhenLookupReturns == LookupRaises(intent) \/ C11_ExhaustedIffNothingLeft

\* scenario A: plot / sine_wave recognized with confidence 0.9, LLM enabled
SineWaveScenario ==
    /\ gen_pc # "idle"
    /\ llm_config.enable_code_generation
    /\ intent.task_type = "plot"
    /\ intent.sub_type = Some("sine_wave")
    /\ intent.confidence = 90

\* C12 as stated: in scenario A the first tier is attempted first, and whatever
\* the LLM answers the result has source template or llm_template and
\* confidence 0.90 or 0.95.
C12_SineWaveTemplateOrRefined ==
    SineWaveScenario =>
        /\ gen_pc = "template_llm" \/ (tiers # <<>> /\ tiers[1].tier = 1)
        /\ GenEnded =>
               /\ generated.kind = "return"
               /\ generated.result.source \in {"template", "llm_template"}
               /\ generated.result.confidence \in {90, 95}

\* C12: in scenario A the first tier, with the template plot_sine_wave, is
\* attempted first; generate always returns code; the code is the refined
\* template (llm_template, 0.95) if the first LLM call succeeds, else free LLM
\* code (llm, 0.75) if the second LLM call succeeds, else the raw fill of
\* plot_sine_wave (template, 0.90).
C12_SineWaveThreeOutcomes ==
    SineWaveScenario =>
        /\ template = Some(PLOT_SINE_WAVE)
        /\ gen_pc = "template_llm"
               \/ (tiers # <<>> /\ tiers[1].tier = 1
                     /\ tiers[1].ended \in {"returned", "failed"})
        /\ GenEnded =>
               /\ generated.kind = "return"
               /\ <<generated.result.source, generated.result.confidence>>
                      = TierTag(tiers[Len(tiers)].tier)
               /\ generated.result.source = "llm_template" => Len(tiers) = 1
               /\ generated.result.source = "llm" =>
                      tiers = <<Tier(1, "failed"), Tier(2, "returned")>>
               /\ generated.result.source = "template" =>
                      /\ tiers = <<Tier(1, "failed"), Tier(2, "failed"), Tier(3, "returned")>>
                      /\ generated.result.template_name = Some("plot_sine_wave")
                      /\ generated.result.code
                             = _fill_template(PLOT_SINE_WAVE, intent.parameters)

\* scenario A ended with the raw fill after the first tier failed
C12_Witness ==
    /\ SineWaveScenario
    /\ GenEnded
    /\ tiers[1] = Tier(1, "failed")
    /\ generated.result.source = "template"

----------------------------------------------------------------------------
(* IntentRecognizer.recognize *)

RecEnded == rec_pc = "done"

\* the call of the LLM failed: no model, an exception, or success = False
ServiceFailed(reply) == reply.kind # "reply" \/ ~reply.success

\* what json.loads made of the object in the reply, when there is one
ReplyObject(reply) == json_loads(json_match(Strip(reply.content))[1])

\* the reply holds no {...} object, or one that json.loads rejects
NoObject(reply) ==
    \/ json_match(Strip(reply.content)) = None
    \/ ReplyObject(reply).exc # NoExc

\* the object of the reply cannot be used: building the Intent from it raises
Unusable(reply) ==
    LET data == DictUpdate(default_intent, ReplyObject(reply).data)
    IN  \/ Get(data, "parameters", JNull).type \in {"none", "num"}
        \/ /\ Get(data, "parameters", JNull).type \in {"str", "list"}
           /\ ~KeyPresent(Get(data, "parameters", JNull))
        \/ Get(data, "confidence", JNull).type # "num"

\* C13: recognize never raises to its caller: whenever the LLM call fails, the
\* reply holds no {...} object, or the object cannot be parsed or used,
\* recognize returns the Intent with task_type "other", confidence 0.3 and
\* parameters holding exactly the raw text under user_request.
C13_FallbackOnAnyFailure ==
    RecEnded =>
        /\ recognized.kind = "return"
        /\ (\/ ServiceFailed(rec_reply[1])
            \/ NoObject(rec_reply[1])
            \/ Unusable(rec_reply[1]))
           => /\ recognized.intent.task_type = JStr(<<"other">>)
              /\ recognized.intent.confidence = JNum(30)
              /\ recognized.intent.parameters
                     = JDict(<<KV("user_request", Str(raw_request))>>)

\* recognize ended in each of the three ways: after a failed call, after a reply
\* without a parsable object, after an object that could not be used
C13_Witness ==
    /\ RecEnded
    /\ ~ServiceFailed(rec_reply[1])
    /\ ~NoObject(rec_reply[1])
    /\ Unusable(rec_reply[1])
    /\ Get(ReplyObject(rec_reply[1]).data, "task_type", JNull) = JStr(<<"plot">>)
    /\ recognized.intent = FallbackIntent(raw_request)

\* C14 as stated: the parameters of every Intent recognize returns contain
\* user_request, and its value is the raw text recognize was called with.
C14_RawTextUnderReservedKey ==
    RecEnded =>
        /\ recognized.intent.parameters.type = "dict"
        /\ HasKey(recognized.intent.parameters.items, "user_request")
        /\ Get(recognized.intent.parameters.items, "user_request", NullValue)
               = Str(raw_request)

\* the same, for the replies whose object supplies no user_request of its own
C14_RawTextWhenReplyHasNone ==
    (RecEnded /\ ~ServiceFailed(rec_reply[1]) /\ ~NoObject(rec_reply[1])
       /\ KeyPresent(Get(ReplyObject(rec_reply[1]).data, "parameters", JDict(<<>>))))
    \/ C14_RawTextUnderReservedKey

----------------------------------------------------------------------------
(* ResultOptimizer.optimize *)

ShapeEnded == shape_pc = "done"

ResultClasses == {"error", "success_with_image", "success_with_output", "empty"}

\* C15: for every ExecutionResult optimize selects exactly one class, by tests
\* in this order: error if not success; else success_with_image if images is
\* non-empty; else success_with_output if output is non-empty after strip; else
\* empty.  So error is selected iff success is false, also when images or
\* output are present.
C15_OneClassInOrder ==
    ShapeEnded =>
        /\ result_type \in ResultClasses
        /\ result_type = "error" <=> ~raw_result.success
        /\ result_type = "success_with_image" <=>
               raw_result.success /\ raw_result.images # <<>>
        /\ result_type = "success_with_output" <=>
               /\ raw_result.success /\ raw_result.images = <<>>
               /\ Strip(raw_result.output) # <<>>
        /\ result_type = "empty" <=>
               /\ raw_result.success /\ raw_result.images = <<>>
               /\ Strip(raw_result.output) = <<>>

\* a failed result that has images and output was classified
C15_Witness ==
    /\ ShapeEnded
    /\ ~raw_result.success
    /\ raw_result.images # <<>>
    /\ Strip(raw_result.output) # <<>>
    /\ result_type = "error"

\* the try block of optimize raised for the result that was shaped
ShapingFailed == TryOptimize(raw_result, shape_config).exc # NoExc

\* C16: optimize never propagates an exception: for every ExecutionResult, also
\* one whose images are bytes, an exception raised while classifying or
\* rendering yields the minimal raw-fields rendering as the returned text, and
\* that rendering contains no image payload.
C16_FallbackNeverRaises ==
    ShapeEnded =>
        /\ optimized.kind = "return"
        /\ ShapingFailed =>
               /\ optimized.text = _format_raw_result(raw_result).text
               /\ \A i \in 1..Len(raw_result.images) :
                      ~Contains(optimized.text, raw_result.images[i])

\* the same, for the results that are failed or have no image
C16_FallbackWithoutImages ==
    (raw_result.success /\ raw_result.images # <<>>) \/ C16_FallbackNeverRaises

(* Provisioning attempts *)

\* the call passed its validation and ended by reporting that no
\* environment could be provisioned
ReportedProvisioningFailure(t) ==
    /\ pc[t] = "done" /\ ~BlankCode(code[t]) /\ config.api_key # ""
    /\ outcome[t].kind = "raise"
    /\ outcome[t].exc.type \in {"RuntimeError", "Exception"}

\* C28 (as claimed): a call with non-empty code and an API key that reports
\* a provisioning failure made at least one create call, whatever the value
\* of max_retries.
C28_AttemptBeforeFailure ==
    \A t \in Turns : ReportedProvisioningFailure(t) => provisions[t] >= 1

\* the same under a max_retries of at least one
C28_AttemptWhenRetriesPositive ==
    \A t \in Turns :
        (ReportedProvisioningFailure(t) /\ config.max_retries >= 1) =>
            provisions[t] >= 1

\* a call under max_retries = 0 reported a provisioning failure
C28_FailureWithoutAttempt ==
    \E t \in Turns :
        /\ ReportedProvisioningFailure(t) /\ config.max_retries = 0
        /\ outcome[t].exc = CreateFailed(0, None)

(* Cancellation *)

\* C30 (as claimed): a turn that was cancelled while execute was suspended
\* ends by raising CancelledError to its caller, and returns no result.
C30_CancellationPropagates ==
    \A t \in Turns :
        (Ended(t) /\ cancelled[t]) => outcome[t] = Raised(CancelledError)

\* a turn cancelled while run_code was awaited raises CancelledError after
\* the kill of its environment was invoked once
C30_PropagatesFromRunCode ==
    \A t \in Turns :
        (Ended(t) /\ ran[t] = "CancelledError") =>
            /\ outcome[t] = Raised(CancelledError)
            /\ \A e \in OwnedEnvs(t) : envs[e].kills = 1

\* a turn cancelled while it awaited the kill, after run_code had returned,
\* returned the result of the run
C30_LostInTeardown ==
    \E t \in Turns :
        /\ Ended(t) /\ cancelled[t] /\ ran[t] = "trace"
        /\ outcome[t].kind = "return" /\ outcome[t].result.success

(* What ends the execution stage with an exception *)

\* execute raised one of its two validation errors before any create call
RaisedValidation(t) ==
    /\ outcome[t].exc.type = "ValueError"
    /\ BlankCode(code[t]) \/ config.api_key = ""
    /\ provisions[t] = 0

\* execute re-raised the error of a create call that is neither a timeout
\* nor a connectivity error
RaisedFatal(t) ==
    /\ ~IsConnectivity(lastCreate[t])
    /\ lastCreate[t] \in CreateErrors
    /\ outcome[t].exc = Exc("Exception", lastCreate[t])

\* execute raised RuntimeError because it holds no environment after its
\* attempts: each create call it made timed out or failed to connect
RaisedGaveUp(t) ==
    /\ outcome[t].exc.type = "RuntimeError"
    /\ failures[t] = provisions[t]
    /\ OwnedEnvs(t) = {}
    /\ ran[t] = "none"

TraceWithTraceback ==
    /\ shape_trace # None
    /\ shape_trace[1].error # None
    /\ shape_trace[1].error[1].traceback # <<>>

\* C18: no user-visible failure message contains a raw stack trace: for every
\* raw trace whose error object carries a traceback, the text optimize renders
\* for the failed ExecutionResult made of it contains the error name and
\* message but not the traceback.
C18_NoTracebackInText ==
    (ShapeEnded /\ TraceWithTraceback) =>
        /\ ~raw_result.success
        /\ optimized.kind = "return"
        /\ Contains(optimized.text, shape_trace[1].error[1].name)
        /\ Contains(optimized.text, shape_trace[1].error[1].value)
        /\ \A i \in 1..Len(shape_trace[1].error[1].traceback) :
               ~Contains(optimized.text, shape_trace[1].error[1].traceback[i])

(* Normalization of the raw trace *)

\* the stderr text of a trace is taken for download progress or a warning
NoisyStderr(trace) ==
    LET stderr_text == LogText(trace, trace.stderr)
    IN  /\ stderr_text # None
        /\ \E kw \in curl_keywords \cup ipython_keywords : Contains(stderr_text[1], kw)

\* C23: the result made of a trace that has no error object and whose
\* stderr text contains a download-progress marker or a warning or kernel
\* keyword has error None and success TRUE, carries only the stdout text as
\* output, and is not classified as an error by the shaper.
C23_NoiseIsDropped ==
    \A trace \in ShapeTraces :
        (shape_trace = Some(trace) /\ trace.error = None /\ NoisyStderr(trace)) =>
            /\ raw_result.error = None
            /\ raw_result.success
            /\ raw_result.output = JoinLines(OutputParts(trace, MaxStdoutLength))
            /\ result_type # "error"

\* C23 witness: a stderr text that names a failure next to a progress marker
\* was dropped from a result with output
C23_Witness ==
    \E trace \in ShapeTraces :
        /\ shape_trace = Some(trace) /\ trace.error = None
        /\ LogText(trace, trace.stderr) = Some(<<"ZeroDivisionError", ": ",
                                                "division by zero", "\n", "Dload">>)
        /\ raw_result.output = <<"42">>
        /\ result_type = "success_with_output"

(* Truncation *)

\* the positions of the rule lines of a rendering
Rules(text) == {i \in 1..Len(text) : <<text[i]>> = RuleLine}

\* the k-th smallest element of a set of numbers
Nth(S, k) == CHOOSE i \in S : Cardinality({j \in S : j <= i}) = k

\* the output text a rendering embeds: the line between its second and its
\* third rule line
Embedded(text) == SubSeq(text, Nth(Rules(text), 2) + 2, Nth(Rules(text), 3) - 2)

\* text is a cut to cap followed by marker
CutWithMarker(text, original, cap, marker) ==
    /\ Len(text) = cap + Len(marker)
    /\ SubSeq(text, 1, cap) = SubSeq(original, 1, cap)
    /\ SubSeq(text, cap + 1, Len(text)) = marker

\* the stdout text of the trace being shaped
StdoutOfTrace == LogText(shape_trace[1], shape_trace[1].stdout)

\* the result made of a trace carries the stdout text unchanged when it is
\* not longer than the cap, and else its first cap tokens and the marker
RunnerOutputCapped ==
    (shape_trace # None /\ StdoutOfTrace # None /\ StdoutOfTrace[1] # <<>>) =>
        IF Len(StdoutOfTrace[1]) > MaxStdoutLength
        THEN CutWithMarker(raw_result.output, StdoutOfTrace[1], MaxStdoutLength,
                           TruncationMarker)
        ELSE raw_result.output = StdoutOfTrace[1]

\* optimize rendered the result with its image or its text rendering, and
\* the rendering embeds the output
EmbedsOutput ==
    /\ shape_pc = "done" /\ shape_config.isInt /\ optimized.kind = "return"
    /\ result_type \in {"success_with_image", "success_with_output"}
    /\ Strip(raw_result.output) # <<>>

\* C24 (as claimed): the runner's output, and the output text embedded by
\* the image and the text rendering, are the trimmed output when it is not
\* longer than the cap, and else its first cap tokens followed by the
\* truncation marker.
C24_CapPlusMarkerEverywhere ==
    /\ RunnerOutputCapped
    /\ EmbedsOutput =>
          LET output == Strip(raw_result.output)
              cap == shape_config.max_output_length
          IN  IF Len(output) > cap
              THEN CutWithMarker(Embedded(optimized.text), output, cap,
                                 OutputTruncationMarker)
              ELSE Embedded(optimized.text) = output

\* C24 (amended): as claimed for the runner's output and for the image
\* rendering; the text rendering embeds exactly the first cap tokens of a
\* longer output, without a marker appended to them, under a heading that
\* says the output was truncated and above a line that names the cap.
C24_TextRenderingCutsToCap ==
    /\ RunnerOutputCapped
    /\ EmbedsOutput =>
          LET output == Strip(raw_result.output)
              cap == shape_config.max_output_length
              text == optimized.text
          IN  IF Len(output) <= cap THEN Embedded(text) = output
              ELSE IF result_type = "success_with_image"
              THEN CutWithMarker(Embedded(text), output, cap, OutputTruncationMarker)
              ELSE /\ Embedded(text) = SubSeq(output, 1, cap)
                   /\ Contains(text, "output (truncated)")
                   /\ SubSeq(text, Len(text) - 2, Len(text)) =
                          <<"output too long, first ", ToString(cap),
                            " characters kept">>

\* C24 witness: the text rendering of an output longer than the cap
C24_Witness ==
    /\ EmbedsOutput
    /\ result_type = "success_with_output"
    /\ Len(Strip(raw_result.output)) > shape_config.max_output_length

\* the image rendering of an output longer than the cap, made of a trace
\* whose stdout was longer than the runner's cap
C24_ImageAfterRunnerCut ==
    /\ EmbedsOutput
    /\ result_type = "success_with_image"
    /\ Len(Strip(raw_result.output)) > shape_config.max_output_length
    /\ shape_trace # None

(* Termination of the suspension points *)

\* C22 (as claimed): a call of recognize eventually ends, whether or not
\* the completion service ever answers.
C22_RecognizeEventuallyEnds == <>(rec_pc = "done")

\* a call of generate eventually ends, whether or not the completion
\* service ever answers
C22_GenerateEventuallyEnds == <>(gen_pc = "done")

\* a call of CodeExecutor.execute eventually ends, whether or not the
\* execution service ever answers
C22_ExecuteEventuallyEnds ==
    \A t \in Turns : (pc[t] # "idle") ~> (pc[t] = "done")

(* Raw template filling *)

\* generate returned the code of a raw template fill
FilledReturned ==
    /\ gen_pc = "done" /\ generated.kind = "return"
    /\ generated.result.source = "template"

\* name has a value in the parameters, or a declared default in the template
Resolvable(T, parameters, name) ==
    \/ HasKey(parameters, name)
    \/ \E i \in 1..Len(T.parameters) :
           T.parameters[i].key = name /\ T.parameters[i].value.default # None

\* the parameter names of a fill
FillNames(T, parameters) ==
    {parameters[i].key : i \in 1..Len(parameters)}
    \cup {T.parameters[i].key : i \in 1..Len(T.parameters)}

\* C26 (as claimed): when the parameters contain every required parameter
\* of the template, the code of a raw template fill contains no placeholder
\* of a name that has a value in the parameters or a declared default.
C26_NoResolvablePlaceholderLeft ==
    (FilledReturned /\ validate_parameters(template[1], intent.parameters)) =>
        \A name \in FillNames(template[1], intent.parameters) :
            Resolvable(template[1], intent.parameters, name) =>
                ~Contains(generated.result.code, Placeholder(name))

\* the same for parameters none of whose values contains a placeholder
C26_NoneLeftWithPlainValues ==
    (/\ FilledReturned /\ validate_parameters(template[1], intent.parameters)
     /\ \A i \in 1..Len(intent.parameters) :
            \A name \in FillNames(template[1], intent.parameters) :
                intent.parameters[i].value.type = "str" =>
                    ~Contains(intent.parameters[i].value.text, Placeholder(name))) =>
        \A name \in FillNames(template[1], intent.parameters) :
            Resolvable(template[1], intent.parameters, name) =>
                ~Contains(generated.result.code, Placeholder(name))

\* a fill in which a value that names a later parameter's placeholder was
\* itself rewritten by the later replacement
C26_ValueRewritten ==
    /\ FilledReturned
    /\ Get(intent.parameters, "url", NullValue) = Str(<<"{user_request}">>)
    /\ intent.parameters[1].key = "url"
    /\ ~Contains(generated.result.code, "{user_request}")

(* The template lookup of the synthesizer *)

\* C29 (as claimed): the parameters of the intent contain every required
\* parameter of the template the lookup returned, and the code of a raw
\* template fill contains no placeholder of a required parameter.
C29_RequiredParametersPresent ==
    /\ template # None => validate_parameters(template[1], intent.parameters)
    /\ FilledReturned =>
           \A i \in 1..Len(template[1].parameters) :
               template[1].parameters[i].value.required =>
                   ~Contains(generated.result.code,
                             Placeholder(template[1].parameters[i].key))

\* a template that lacks a required parameter was not kept by the exact
\* lookup: the fuzzy match returned it
C29_OnlyFuzzyLacksRequired ==
    (template # None /\ ~validate_parameters(template[1], intent.parameters)) =>
        /\ ExactMatch(intent) = None
        /\ TemplateLibrary_match(
               Get(intent.parameters, "user_request", Str(<<>>))).template = template

\* a raw fill of the template a fuzzy match returned, without the url it
\* requires
C29_FuzzyWithoutRequired ==
    /\ FilledReturned
    /\ template[1].name = "web_scrape_title"
    /\ ~HasKey(intent.parameters, "url")
    /\ Contains(generated.result.code, "{url}")

(* Validation of the generated code *)

\* C27: the code of every GeneratedCode that generate returns, whichever
\* tier made it, has at least MinCodeLength characters and contains one of
\* the keywords of _validate_code; and _validate_code rejects every text
\* that is shorter or contains none of them.
C27_ReturnedCodeLongWithKeyword ==
    (gen_pc = "done" /\ generated.kind = "return") =>
        /\ generated.result.source \in {"llm_template", "llm", "template"}
        /\ Length(generated.result.code) >= MinCodeLength
        /\ \E keyword \in python_keywords : KeywordIn(generated.result.code, keyword)
        /\ \A text \in LLMContents \cup {generated.result.code} :
               (\/ Length(text) < MinCodeLength
                \/ \A keyword \in python_keywords : ~KeywordIn(text, keyword))
                   => ~_validate_code(text)

\* C27 witness: the first tier's LLM answered with a text that is too short
\* or has no keyword, and generate went on and returned code of a later tier
C27_Witness ==
    /\ gen_pc = "done" /\ generated.kind = "return"
    /\ generated.result.source \in {"llm", "template"}
    /\ \E i \in 1..Len(tiers) : tiers[i].tier = 1 /\ tiers[i].ended = "failed"

(* The catalog's properties *)

\* match was called with a text and returned
MatchEnded == match_request # None /\ matched.exc = NoExc

\* the lower-cased request of the call
MatchLower == Lower(match_request[1].text)

\* the name of the template match returned, or "" for None
MatchedName == IF matched.template = None THEN "" ELSE matched.template[1].name

\* some template of the catalog declares a keyword that occurs in the text
SomeKeywordOccurs(text) ==
    \E T \in Templates : \E kw \in intent_keywords(T.name) : KeywordIn(text, kw)

\* the three tests of match, in their order
ScreenshotTest(text) ==
    (\E kw \in ScreenshotKeywords : KeywordIn(text, kw)) /\ HasURL(text)

ScrapeTest(text) ==
    \/ \E kw \in ScrapeKeywords : KeywordIn(text, kw)
    \/ (\E kw \in TitleKeywords : KeywordIn(text, kw)) /\ HasURL(text)

SineTest(text) == \E kw \in SineKeywords : KeywordIn(text, kw)

\* match returns the template of the first of its three tests that the
\* lower-cased text satisfies, None when it satisfies none, and leaves the
\* catalog as it was
C25_FirstSatisfiedTest ==
    /\ lib_templates = Templates
    /\ MatchEnded =>
         MatchedName =
            IF ScreenshotTest(MatchLower) THEN "web_screenshot"
            ELSE IF ScrapeTest(MatchLower) THEN "web_scrape_title"
            ELSE IF SineTest(MatchLower) THEN "plot_sine_wave"
            ELSE ""

\* C25 (as claimed): match returns the template of the first satisfied test
\* in the order screenshot, scrape, sine, leaves the catalog as it was, and
\* returns None exactly when no keyword declared by a template of the
\* catalog occurs in the text.
C25_AbsentIffNoKeyword ==
    /\ C25_FirstSatisfiedTest
    /\ MatchEnded => (matched.template = None <=> ~SomeKeywordOccurs(MatchLower))

\* a text that satisfies the first two tests got the screenshot template
C25_EarliestWins ==
    /\ MatchEnded /\ MatchedName = "web_screenshot"
    /\ ScrapeTest(MatchLower)

(* The tool's properties *)

\* C19 (as claimed): when two consecutive calls of execute carry the same
\* code text, the second one is answered as a duplicate and does not call
\* CodeExecutor.execute.
C19_SecondTurnIsDuplicate ==
    \A i \in 1..(Len(turns) - 1) :
        (turns[i].request # <<>> /\ turns[i + 1].request = turns[i].request
            /\ turns[i + 1].session = turns[i].session) =>
            /\ turns[i + 1].content = "duplicate"
            /\ ~turns[i + 1].executed

\* a call of execute never reads or writes the map of digests
C19_TurnsLeaveHashesAlone ==
    [][turns' # turns => code_hashes' = code_hashes /\ checks' = checks]_vars

\* the stages of a turn, in the order of the pipeline
StageOrder == <<"recognize", "generate", "execute", "optimize">>

\* s is a prefix of q
IsPrefix(s, q) == Len(s) <= Len(q) /\ \A i \in 1..Len(s) : s[i] = q[i]

\* C21: in every turn the stages called are an initial part of the order
\* recognize, generate, execute, optimize (without recognize when the
\* configuration disables it); CodeExecutor.execute is called only when
\* generate returned, with exactly the code generate returned; and a turn
\* whose generate raised, or whose execute raised, ends with the error text
\* without calling the next stage.
C21_StagesStrictlySequential ==
    \A i \in 1..Len(turns) :
        LET turn == turns[i]
            called(stage) == \E k \in 1..Len(turn.calls) : turn.calls[k] = stage
        IN  /\ IsPrefix(turn.calls,
                        IF enable_intent_recognition THEN StageOrder
                        ELSE Tail(StageOrder))
            /\ called("execute") <=> turn.executed
            /\ turn.executed => turn.generated # None /\ turn.code = turn.generated
            /\ turn.generated = None => ~called("execute") /\ ~called("optimize")
            /\ turn.content = "result" => called("optimize")

\* C21 witness: one turn ended after generate raised, and the next turn
\* ran all four stages on the generated code
C21_Witness ==
    /\ Len(turns) = 2
    /\ turns[1].calls = <<"recognize", "generate">> /\ ~turns[1].executed
    /\ turns[2].calls = StageOrder /\ turns[2].code = Some(<<"import numpy">>)
    /\ turns[2].content = "result"


\* the check at position i of session x repeats the code checked before it
SameCodeAsPrevious(x, i) == i > 1 /\ checks[x][i].code = checks[x][i - 1].code

\* C20 (as claimed): a check is flagged exactly when its code equals the
\* code of the check made just before it for the same session, whatever
\* was checked for other sessions in between.
C20_FlaggedIffSameCode ==
    \A x \in SessionIds :
        \A i \in 1..Len(checks[x]) :
            checks[x][i].flagged <=> SameCodeAsPrevious(x, i)

\* a check is flagged exactly when the digest of its code equals the digest
\* of the code checked just before it for the same session, and the map
\* holds the digest of the last code checked for each session
C20_FlaggedIffSameDigest ==
    \A x \in SessionIds :
        /\ \A i \in 1..Len(checks[x]) :
               checks[x][i].flagged <=>
                   (i > 1 /\ md5(checks[x][i].code) = md5(checks[x][i - 1].code))
        /\ code_hashes[x] =
               IF checks[x] = <<>> THEN None
               ELSE Some(md5(checks[x][Len(checks[x])].code))

\* one code checked twice for a session, with a check of another code for
\* the other session in between: the second check is flagged
C20_RepeatedAcrossSessions ==
    /\ Len(checks["s1"]) = 2
    /\ checks["s1"][1].code = <<"print(1)">> /\ checks["s1"][2].code = <<"print(1)">>
    /\ checks["s1"][2].flagged
    /\ Len(checks["default_session"]) = 1
    /\ code_hashes["default_session"] = Some(md5(<<CollisionA>>))

============================================================================
